---- MODULE Spec2Model ----
(***************************************************************************)
(* SVTVision backend: CameraService (shared capture / consumer threads),   *)
(* CameraManager (raw and processed frame queues, metrics) and             *)
(* VisionPipelineManager (start / stop of pipeline instances, file-driven  *)
(* threads, StreamTap registry, save sinks).                               *)
(*                                                                         *)
(* API calls (open_camera, close_camera, start, stop) are handlers of the  *)
(* asyncio web server and run one at a time; each is one action.  The two  *)
(* shared loops and the file threads interleave with them one loop         *)
(* iteration (per camera) at a time.  start assigns manager.vision_pipeline*)
(* and manager.use_case in two adjacent statements; the model takes the    *)
(* two assignments as one step.                                            *)
(*                                                                         *)
(* The specifications share the state and the operations:                 *)
(*   Spec / FairSpec          frames flowing through open cameras          *)
(*   LifecycleSpec            the life of the two shared loop threads      *)
(*   VpmSpec                  every kind of start and stop call            *)
(*   FileSpec / FairFileSpec  the file-reading threads                     *)
(*   QueueSpec                one CameraManager fed until its queues are   *)
(*                            full                                         *)
(*   ValidateSpec             validate_graph on small graphs               *)
(*   CompileSpec / BuildSpec  compile_graph and build_pipeline_with_taps,  *)
(*                            and one frame dispatched to the taps built   *)
(*   LockSpec                 the API thread and the two loops, one lock   *)
(*                            acquisition or statement at a time           *)
(*   TapSpec                  threads calling one StreamTap                *)
(*   FairLifecycleSpec        LifecycleSpec with both loops scheduled      *)
(*   StatsSpec / OrderSpec    a camera with its pipeline attached, fed by  *)
(*                            the capture loop, drained by the consumers   *)
(*   FrameSpec                process_frame on any list of stages          *)
(***************************************************************************)
EXTENDS Integers, Sequences, FiniteSets, TLC

\* ---------------------------------------------------------------- bounds
MaxFrames == 2          \* capture attempts made by the capture loop
MaxPipelines == 2       \* pipelines built by successful start calls
MaxLoopThreads == 2     \* capture / consumer loop threads alive at once
MaxProcessed == 1       \* frames fed to one pipeline
MaxQueueFrames == 12    \* capture attempts made on the manager of QueueSpec
MaxEdges == 2           \* edges of a graph given to validate_graph / compile_graph
MaxOrderFrames == 6     \* capture attempts made on the manager of OrderSpec
MaxPushes == 2          \* push_frame calls made on the StreamTap of TapSpec
MaxStages == 3          \* stages of the pipeline of FrameSpec
MaxCalls == 2           \* process_frame calls made on it

\* ------------------------------------------------------ program constants
RawQueueMaxLen == 5     \* deque(maxlen=5)
FrameQueueMaxLen == 10  \* deque(maxlen=10)

Cameras == {"c1", "c2"}
FileInsts == {"file:vid:a", "file:img:a"}
InstIds == Cameras \cup FileInsts
TapIds == {"tap1", "preview"}
PipelineIds == 1..MaxPipelines
NoPipeline == 0

VARIABLES
  camera_config,            \* camera_config_service: camera id -> stored use_case
  camera_managers,          \* CameraService.camera_managers (absent = open FALSE)
  camera_manager_running,   \* CameraService.camera_manager_running
  cm_threads,               \* live threads executing _camera_manager_loop
  vision_pipeline_running,  \* CameraService.vision_pipeline_running
  vp_threads,               \* live threads executing _vision_pipeline_loop
  frame_no,                 \* capture attempts made so far (numbers the frames)
  pipelines,                \* VisionPipeline objects (with their save sink)
  instances,                \* VisionPipelineManager._instances
  save_sinks,               \* VisionPipelineManager._save_sinks
  file_threads,             \* VisionPipelineManager._file_threads
  threads,                  \* the file-reading thread started with each pipeline
  taps,                     \* StreamTapRegistry._taps
  lastCall,                 \* result of the API call made by the last step
  graph,                    \* the PipelineGraph handed to validate_graph / compile_graph
  validation,               \* what validate_graph did with it
  plan,                     \* what compile_graph did with it
  stream_tap,               \* one StreamTap object
  tap_threads,              \* the threads calling it: position and locals
  built,                    \* what build_pipeline_with_taps made of the plan
  put_frames,               \* history: the frames put into the raw queue of OrderSpec
  fed_frames,               \* history: the frames handed to its pipeline
  popped,                   \* raw_frame of each consumer thread of OrderSpec (0: none)
  frame_pipeline,           \* the VisionPipeline object of FrameSpec
  frame_result,             \* what its last process_frame call returned
  lock_holder,              \* threading.Lock objects: the thread inside "with", "" for none
  todo,                     \* LockSpec: what is left of each thread's call / loop iteration
  loop_state,               \* LockSpec: the capture and consumer loop threads
  tap_frames                \* the frames each tap of the built pipeline was pushed

vars == <<camera_config, camera_managers, camera_manager_running, cm_threads,
          vision_pipeline_running, vp_threads, frame_no, pipelines, instances,
          save_sinks, file_threads, threads, taps, lastCall,
          graph, validation, plan, stream_tap,
          tap_threads, built, put_frames, fed_frames, popped,
          frame_pipeline, frame_result, lock_holder, todo, loop_state,
          tap_frames>>

\* The objects exercised on their own, apart from the camera service
benchVars == <<stream_tap, tap_threads, built>>

\* History of the frames of one camera (written by OrderSpec only)
orderVars == <<put_frames, fed_frames, popped>>

\* The pipeline whose process_frame is exercised on its own (FrameSpec)
frameVars == <<frame_pipeline, frame_result>>

\* The locks and thread positions followed by LockSpec
lockVars == <<lock_holder, todo, loop_state>>

\* What the taps of a built pipeline received (written by BuildSpec only)
feedVars == <<tap_frames>>

\* What no camera or pipeline operation writes: the stored camera
\* configuration, the graph compiler's data and the objects exercised on
\* their own
staticVars == <<camera_config, graph, validation, plan, benchVars, orderVars,
               frameVars, lockVars, feedVars>>

svcVars == <<camera_managers, camera_manager_running, cm_threads,
             vision_pipeline_running, vp_threads>>
vpmVars == <<pipelines, instances, save_sinks, file_threads, threads, taps>>

\* ------------------------------------------------------------- CameraManager
\* CameraManager.__init__ / a camera id that is not in camera_managers.
\* pre_use_case is history: the use_case the manager had when a pipeline was
\* attached to it.
NoManager ==
  [open |-> FALSE, use_case |-> "stream_only", pre_use_case |-> "",
   vision_pipeline |-> NoPipeline,
   raw_frame_queue |-> <<>>, frame_queue |-> <<>>,
   frames_captured |-> 0, frames_dropped |-> 0]

NewManager(use_case) ==
  [NoManager EXCEPT !.open = TRUE, !.use_case = use_case]

\* A faulty bounded queue that refuses the new entry when it is full
DequeAppendDropNewest(q, x, maxlen) ==
  IF Len(q) >= maxlen THEN q ELSE Append(q, x)

\* collections.deque(maxlen=n).append
DequeAppend(q, x, maxlen) ==
  IF Len(q) >= maxlen THEN Append(Tail(q), x) ELSE Append(q, x)

\* CameraManager.enqueue_raw_frame
enqueue_raw_frame(m, f) ==
  LET was_full == Len(m.raw_frame_queue) >= RawQueueMaxLen
      old_frame_count == Len(m.raw_frame_queue)
      q == DequeAppend(m.raw_frame_queue, f, RawQueueMaxLen)
  IN [m EXCEPT !.raw_frame_queue = q,
               !.frames_dropped = IF was_full /\ Len(q) = old_frame_count
                                  THEN @ + 1 ELSE @,
               !.frames_captured = @ + 1]

\* CameraManager.process_vision_pipeline, up to the pop of the raw queue:
\* TRUE when the call goes on to run the pipeline on a popped frame
pvp_runs(m) ==
  /\ ~(m.vision_pipeline = NoPipeline \/ m.use_case # "apriltag")
  /\ Len(m.raw_frame_queue) > 0

\* What one VisionPipeline.process_frame call comes to: every stage ran, the
\* preprocess stage gave no frame (early return), or an exception was caught
Outcomes == {"ok", "preprocess_failed", "raised"}

\* CameraManager.process_vision_pipeline, the popleft under
\* raw_frame_queue_lock
pop_raw_frame(m) == [m EXCEPT !.raw_frame_queue = Tail(@)]

\* CameraManager.process_vision_pipeline, from the process_frame call on, for
\* the popped frame f (pipeline_result.get("raw") is None only when
\* process_frame caught an exception)
store_pipeline_result(m, f, outcome) ==
  LET was_full == Len(m.frame_queue) >= FrameQueueMaxLen
      old_frame_count == Len(m.frame_queue)
      q == DequeAppend(m.frame_queue, f, FrameQueueMaxLen)
  IN IF outcome = "raised"
     THEN m
     ELSE [m EXCEPT !.frame_queue = q,
                    !.frames_dropped = IF was_full /\ Len(q) = old_frame_count
                                       THEN @ + 1 ELSE @]

\* CameraManager.process_vision_pipeline: the manager after the whole call
process_vision_pipeline(m, outcome) ==
  IF ~pvp_runs(m) THEN m
  ELSE store_pipeline_result(pop_raw_frame(m), Head(m.raw_frame_queue), outcome)

\* ------------------------------------------------------------ VisionPipeline
NoPipelineObj ==
  [built |-> FALSE, inst |-> "", frames_processed |-> 0, sink |-> "none",
   writer_open |-> FALSE, close_called |-> FALSE]

\* VisionPipeline.process_frame with the side-tap dispatch to the save sink
\* (SaveVideoSink.push_frame opens its writer whenever it has none)
process_frame(pl, outcome) ==
  [pl EXCEPT !.frames_processed = IF outcome = "ok" THEN @ + 1 ELSE @,
             !.writer_open = IF pl.sink = "save_video" /\ outcome = "ok"
                             THEN TRUE ELSE @]

\* SaveVideoSink.close
sink_close(pl) ==
  [pl EXCEPT !.writer_open = FALSE, !.close_called = TRUE]

\* ------------------------------------------- VisionPipeline.process_frame
\* The stage loop of process_frame on its own.  A frame is written as the
\* number of the process_frame call it belongs to; 0 is None.
StageNames == {"preprocess", "detect", "detect_overlay"}

\* VisionPipeline.__init__ / from_stages (stages: the names of self._stages in
\* order; stage_frames: the newest entry of each self._stage_frames deque)
NewVisionPipeline(stages) ==
  [stages |-> stages,
   stage_frames |-> [s \in StageNames |-> 0],
   frames_processed |-> 0,
   detections_count |-> 0,
   frames_with_detections |-> 0]

\* no process_frame call made yet
NoResult ==
  [call |-> 0, raw |-> 0, keys |-> {}, frames |-> [s \in StageNames |-> 0],
   returned |-> <<>>]

\* _PreprocessStage / _DetectStage / _OverlayStage .process: the frame the
\* stage returns for the frame it is given in call k (failed: the
\* preprocessor returned None)
stage_process(name, frame, k, failed) ==
  CASE name = "preprocess"     -> IF failed \/ frame = 0 THEN 0 ELSE k
    [] name = "detect"         -> frame
    [] name = "detect_overlay" -> k

\* A faulty stage loop that goes on to the next stage whichever stage
\* returned None
aborts_never(name) == FALSE

\* process_frame: a stage that returned None ends the call
aborts_on_none(name) == name = "preprocess"

\* process_frame, the loop over self._stages from stage i on (fails: the
\* positions whose preprocessor returns None in this call; acc.returned: what
\* each stage invoked so far returned)
RECURSIVE run_stages(_, _, _, _, _)
run_stages(stages, fails, k, i, acc) ==
  IF i > Len(stages) \/ acc.aborted THEN acc
  ELSE LET name == stages[i]
           given == IF name = "detect_overlay" THEN k ELSE acc.frame
           frame == stage_process(name, given, k, i \in fails)
           returned == Append(acc.returned, frame)
       IN IF frame = 0
          THEN IF aborts_on_none(name)
               THEN [acc EXCEPT !.frame = 0, !.returned = returned,
                                !.aborted = TRUE]
               ELSE run_stages(stages, fails, k, i + 1,
                               [acc EXCEPT !.frame = 0, !.returned = returned])
          ELSE run_stages(stages, fails, k, i + 1,
                          [acc EXCEPT !.frame = frame, !.returned = returned,
                                      !.stage_frames[name] = frame,
                                      !.detected = @ \/ name = "detect"])

\* VisionPipeline.process_frame, call number k: the pipeline after the call
\* and the dict returned (n: tags the detector finds; raised: an exception
\* reaches the except clause).  keys: the stage keys of the dict, frames: what
\* dict.get gives for each stage name.
process_frame_call(vp, k, fails, n, raised) ==
  LET r == run_stages(vp.stages, fails, k, 1,
                      [frame |-> k, stage_frames |-> vp.stage_frames,
                       returned |-> <<>>, aborted |-> FALSE, detected |-> FALSE])
      names == {vp.stages[i] : i \in DOMAIN vp.stages}
      found == IF r.detected THEN n ELSE 0
      none == [s \in StageNames |-> 0]
  IN IF raised
     THEN [vp |-> vp,
           out |-> [call |-> k, raw |-> 0, keys |-> names, frames |-> none,
                    returned |-> <<>>]]
     ELSE IF r.aborted
     THEN [vp |-> [vp EXCEPT !.stage_frames = r.stage_frames],
           out |-> [call |-> k, raw |-> k,
                    keys |-> {"preprocess", "detect_overlay"}, frames |-> none,
                    returned |-> r.returned]]
     ELSE [vp |-> [vp EXCEPT !.stage_frames = r.stage_frames,
                             !.frames_processed = @ + 1,
                             !.detections_count = @ + found,
                             !.frames_with_detections =
                                IF found > 0 THEN @ + 1 ELSE @],
           out |-> [call |-> k, raw |-> k, keys |-> names,
                    frames |-> [s \in StageNames |->
                                  IF s \in names THEN r.stage_frames[s] ELSE 0],
                    returned |-> r.returned]]

NoCall == [op |-> "none", id |-> "", err |-> "", cause |-> ""]

Call(op, id, err, cause) == [op |-> op, id |-> id, err |-> err, cause |-> cause]

\* ------------------------------------------------------------- CameraService
OpenCameras == {c \in Cameras : camera_managers[c].open}

\* cameras_with_pipelines > 0
HasPipelines(cms) ==
  \E c \in Cameras : cms[c].open /\ cms[c].vision_pipeline # NoPipeline

\* A faulty _ensure_camera_manager_thread_running that does not look at the
\* running flag: every open starts a thread
ensure_camera_manager_thread_always(running, cms) ==
  \E x \in Cameras : cms[x].open

\* _ensure_camera_manager_thread_running: TRUE when it starts the thread
ensure_camera_manager_thread_running(running, cms) ==
  ~running /\ \E x \in Cameras : cms[x].open

\* _ensure_vision_pipeline_thread_running: TRUE when it starts the thread
ensure_vision_pipeline_thread_running(running, cms) ==
  ~running /\ HasPipelines(cms)

\* CameraService.open_camera (stream_only from the request body, opened:
\* whether the device could be opened)
open_camera(c, stream_only, opened) ==
  IF camera_managers[c].open
  THEN /\ lastCall' = Call("open_camera", c, "", "already_open")
       /\ UNCHANGED <<staticVars, svcVars, frame_no, vpmVars>>
  ELSE IF ~opened
  THEN /\ lastCall' = Call("open_camera", "", "open failed", "")
       /\ UNCHANGED <<staticVars, svcVars, frame_no, vpmVars>>
  ELSE LET use_case == IF stream_only THEN "stream_only" ELSE camera_config[c]
           cms == [camera_managers EXCEPT ![c] = NewManager(use_case)]
           start_cm == ensure_camera_manager_thread_running(camera_manager_running, cms)
           start_vp == ensure_vision_pipeline_thread_running(vision_pipeline_running, cms)
       IN /\ start_cm => cm_threads < MaxLoopThreads
          /\ start_vp => vp_threads < MaxLoopThreads
          /\ camera_managers' = cms
          /\ camera_manager_running' = (camera_manager_running \/ start_cm)
          /\ cm_threads' = IF start_cm THEN cm_threads + 1 ELSE cm_threads
          /\ vision_pipeline_running' = (vision_pipeline_running \/ start_vp)
          /\ vp_threads' = IF start_vp THEN vp_threads + 1 ELSE vp_threads
          /\ lastCall' = Call("open_camera", c, "", "opened")
          /\ UNCHANGED <<staticVars, frame_no, vpmVars>>

\* CameraService.close_camera (cm_joined / vp_joined: whether the bounded join
\* saw the loop thread end before its 2 s timeout)
close_camera(c, cm_joined, vp_joined) ==
  IF ~camera_managers[c].open
  THEN /\ lastCall' = Call("close_camera", "", "not found", "")
       /\ UNCHANGED <<staticVars, svcVars, frame_no, vpmVars>>
  ELSE LET cms == [camera_managers EXCEPT ![c] = NoManager]
           stop_cm == (\A x \in Cameras : ~cms[x].open) /\ camera_manager_running
           stop_vp == ~HasPipelines(cms) /\ vision_pipeline_running
       IN /\ camera_managers' = cms
          /\ camera_manager_running' = (camera_manager_running /\ ~stop_cm)
          /\ cm_threads' = IF stop_cm /\ cm_joined /\ cm_threads > 0
                            THEN cm_threads - 1 ELSE cm_threads
          /\ vision_pipeline_running' = (vision_pipeline_running /\ ~stop_vp)
          /\ vp_threads' = IF stop_vp /\ vp_joined /\ vp_threads > 0
                            THEN vp_threads - 1 ELSE vp_threads
          /\ lastCall' = Call("close_camera", c, "", "closed")
          /\ UNCHANGED <<staticVars, frame_no, vpmVars>>

\* CameraService._camera_manager_loop: what one loop iteration does to one
\* manager (captured: capture_frame_raw returned a frame, numbered f)
capture_frame(m, f, captured) ==
  IF ~captured
  THEN [m EXCEPT !.frames_dropped = @ + 1]
  ELSE IF m.vision_pipeline # NoPipeline
          /\ m.use_case \in {"apriltag", "vision_pipeline"}
  THEN enqueue_raw_frame(m, f)
  ELSE [m EXCEPT !.frame_queue = DequeAppend(@, f, FrameQueueMaxLen),
                 !.frames_captured = @ + 1]

\* CameraService._camera_manager_loop: one camera of one loop iteration
camera_manager_loop_step(c, captured) ==
  LET m == camera_managers[c]
      f == frame_no + 1
  IN /\ cm_threads > 0 /\ camera_manager_running
     /\ m.open
     /\ frame_no < MaxFrames
     /\ frame_no' = f
     /\ camera_managers' = [camera_managers EXCEPT ![c] =
                              capture_frame(m, f, captured)]
     /\ lastCall' = NoCall
     /\ UNCHANGED <<staticVars, camera_manager_running, cm_threads,
                    vision_pipeline_running, vp_threads, vpmVars>>

CaptureStep ==
  \E c \in Cameras, captured \in BOOLEAN : camera_manager_loop_step(c, captured)

\* CameraService._camera_manager_loop: the loop sees the cleared flag and ends
CaptureLoopExit ==
  /\ cm_threads > 0 /\ ~camera_manager_running
  /\ cm_threads' = cm_threads - 1
  /\ lastCall' = NoCall
  /\ UNCHANGED <<staticVars, camera_managers, camera_manager_running,
                 vision_pipeline_running, vp_threads, frame_no, vpmVars>>

\* CameraService._vision_pipeline_loop: one camera of one loop iteration
vision_pipeline_loop_step(c, outcome) ==
  LET m == camera_managers[c]
  IN /\ vp_threads > 0 /\ vision_pipeline_running
     /\ m.open /\ m.vision_pipeline # NoPipeline
     /\ m.use_case = "vision_pipeline"
     /\ pvp_runs(m) => pipelines[m.vision_pipeline].frames_processed < MaxProcessed
     /\ camera_managers' = [camera_managers EXCEPT ![c] =
                              process_vision_pipeline(m, outcome)]
     /\ pipelines' = IF pvp_runs(m)
                      THEN [pipelines EXCEPT ![m.vision_pipeline] =
                              process_frame(@, outcome)]
                      ELSE pipelines
     /\ lastCall' = NoCall
     /\ UNCHANGED <<staticVars, camera_manager_running, cm_threads,
                    vision_pipeline_running, vp_threads, frame_no, instances,
                    save_sinks, file_threads, threads, taps>>

ConsumerStep ==
  \E c \in Cameras, outcome \in Outcomes : vision_pipeline_loop_step(c, outcome)

\* A faulty _vision_pipeline_loop that never looks at its running flag again
ConsumerLoopIgnoresFlag ==
  /\ vp_threads > 0 /\ ~vision_pipeline_running
  /\ UNCHANGED vars

\* CameraService._vision_pipeline_loop: the loop sees the cleared flag and ends
ConsumerLoopExit ==
  /\ vp_threads > 0 /\ ~vision_pipeline_running
  /\ vp_threads' = vp_threads - 1
  /\ lastCall' = NoCall
  /\ UNCHANGED <<staticVars, camera_managers, camera_manager_running,
                 cm_threads, vision_pipeline_running, frame_no, vpmVars>>

\* ------------------------------------------------------ VisionPipelineManager
\* Files that exist on disk (os.path.isfile) and paths a source node may carry
ExistingFiles == {"a"}
Paths == {"", "a", "gone"}

NoSource == [kind |-> "camera", path |-> "", camera_id |-> ""]

\* The source node of a graph, as start reads it
SourceNodes ==
  [kind : {"camera"}, path : {""}, camera_id : {""} \cup Cameras]
  \cup [kind : {"video_file", "image_file"}, path : Paths, camera_id : {""}]

\* What build_pipeline_with_taps hands back: the StreamTap id and the save sink
BuildOutputs ==
  { [tap |-> "tap1", sink |-> "none"],
    [tap |-> "preview", sink |-> "save_video"] }

Algo(given, structure, source, tap, sink) ==
  [given |-> given, structure |-> structure, source |-> source,
   tap |-> tap, sink |-> sink]

\* The algorithm a start call is given.  given: inline graph or stored
\* algorithm found ("graph"), neither algorithm_id nor graph ("none"), unknown
\* or empty stored algorithm ("unknown_id").  structure: what
\* compile_graph / build_pipeline_with_taps do with it.
Algos ==
  { Algo(g, "valid", NoSource, "tap1", "none") : g \in {"none", "unknown_id"} }
  \cup
  { Algo("graph", st, src, "tap1", "none") :
      st \in {"invalid", "build_raises", "build_none"},
      src \in {NoSource, [kind |-> "video_file", path |-> "", camera_id |-> ""]} }
  \cup
  { Algo("graph", "valid", src, b.tap, b.sink) : src \in SourceNodes, b \in BuildOutputs }

Targets == Cameras \cup {"file"}

\* Error messages of start, by their return statement
E_NoGraph == "Provide a saved pipeline (algorithm_id) or the current graph (nodes, edges)."
E_AlgoNotFound == "Algorithm not found. Save the pipeline first (Save Algorithm), then Run."
E_InvalidGraph == "Invalid pipeline graph"
E_BuildFailed == "Pipeline build failed"
E_BuildNone == "Pipeline build produced no pipeline. Check graph connections."
E_VideoNotFound == "Video file not found."
E_ImageNotFound == "Image file not found."
E_VideoNoPath == "Set the Location (path) for the VideoFile source node in the graph, then Run again."
E_ImageNoPath == "Set the Location (path) for the ImageFile source node in the graph, then Run again."
E_FileNoSource == "Add a VideoFile or ImageFile source to the graph, set its Location (path), then Run again."
E_CameraNotOpen == "Open the camera first."
E_CameraNotFound == "Camera not found. Ensure the camera is connected and discoverable."

\* _resolve_video_file_path followed by os.path.isfile ("" for None)
resolve_video_file_path(path) == IF path \in ExistingFiles THEN path ELSE ""

\* "file:" + sha256(path_abs)[:16]  /  "file:" + sha256("img:" + path_abs)[:16]
FileInstanceId(kind, path_abs) ==
  IF kind = "video_file" THEN "file:vid:a" ELSE "file:img:a"

\* _camera_id_from_graph, then `source_camera_id if source_camera_id else target`
start_camera_id(target, algo) ==
  IF algo.source.kind = "camera" /\ algo.source.camera_id # ""
  THEN algo.source.camera_id ELSE target

\* CameraService.is_camera_open
is_camera_open(cid) == cid \in Cameras /\ camera_managers[cid].open

\* The failure cause of a start call, read off its arguments and the state
\* the call finds ("" when nothing stands in the way of the start)
StartCause(target, algo, discoverable) ==
  LET file_src == algo.source.kind \in {"video_file", "image_file"}
  IN CASE algo.given # "graph" -> "no graph"
       [] algo.structure = "invalid" -> "graph invalid"
       [] algo.structure # "valid" -> "build failed"
       [] file_src /\ algo.source.path = "" -> "no path configured"
       [] file_src /\ algo.source.path \notin ExistingFiles -> "file not found"
       [] file_src -> ""
       [] target = "file" -> "target is file but no file source"
       [] ~is_camera_open(start_camera_id(target, algo)) -> "camera not open"
       [] ~discoverable -> "camera not discoverable"
       [] OTHER -> ""

\* A faulty order of the checks of start: the camera is looked at before the
\* file sources are
start_error_camera_first(target, algo, discoverable) ==
  LET src == algo.source
      video_file == src.kind = "video_file" /\ src.path # ""
      image_file == src.kind = "image_file" /\ src.path # ""
  IN IF algo.given = "none" THEN E_NoGraph
     ELSE IF algo.given = "unknown_id" THEN E_AlgoNotFound
     ELSE IF algo.structure = "invalid" THEN E_InvalidGraph
     ELSE IF algo.structure = "build_raises" THEN E_BuildFailed
     ELSE IF algo.structure = "build_none" THEN E_BuildNone
     ELSE IF video_file
          THEN (IF resolve_video_file_path(src.path) = "" THEN E_VideoNotFound ELSE "")
     ELSE IF image_file
          THEN (IF resolve_video_file_path(src.path) = "" THEN E_ImageNotFound ELSE "")
     ELSE IF target # "file" /\ ~is_camera_open(start_camera_id(target, algo))
          THEN E_CameraNotOpen
     ELSE IF src.kind = "video_file" THEN E_VideoNoPath
     ELSE IF src.kind = "image_file" THEN E_ImageNoPath
     ELSE IF target = "file" THEN E_FileNoSource
     ELSE IF ~discoverable THEN E_CameraNotFound
     ELSE ""

\* VisionPipelineManager.start: the error it returns ("" when it goes on to
\* start the instance), in the order of the checks in the code
start_error(target, algo, discoverable) ==
  LET src == algo.source
      video_file == src.kind = "video_file" /\ src.path # ""
      image_file == src.kind = "image_file" /\ src.path # ""
  IN IF algo.given = "none" THEN E_NoGraph
     ELSE IF algo.given = "unknown_id" THEN E_AlgoNotFound
     ELSE IF algo.structure = "invalid" THEN E_InvalidGraph
     ELSE IF algo.structure = "build_raises" THEN E_BuildFailed
     ELSE IF algo.structure = "build_none" THEN E_BuildNone
     ELSE IF video_file
          THEN (IF resolve_video_file_path(src.path) = "" THEN E_VideoNotFound ELSE "")
     ELSE IF image_file
          THEN (IF resolve_video_file_path(src.path) = "" THEN E_ImageNotFound ELSE "")
     ELSE IF src.kind = "video_file" THEN E_VideoNoPath
     ELSE IF src.kind = "image_file" THEN E_ImageNoPath
     ELSE IF target = "file" THEN E_FileNoSource
     ELSE IF ~is_camera_open(start_camera_id(target, algo)) THEN E_CameraNotOpen
     ELSE IF ~discoverable THEN E_CameraNotFound
     ELSE ""

FreePipelines == {p \in PipelineIds : ~pipelines[p].built}
NoThread == 0
NoFileThread ==
  [state |-> "none", inst |-> "", kind |-> "", stop_event |-> FALSE,
   stop_returned |-> FALSE]
ExitedThread == [NoFileThread EXCEPT !.state = "exited"]
NoInstance == [state |-> "none", pipeline |-> NoPipeline]
NoTaps == [t \in TapIds |-> NoPipeline]

\* build_pipeline_with_taps: the pipeline object with its save sink
NewPipeline(instance_id, sink) ==
  [NoPipelineObj EXCEPT !.built = TRUE, !.inst = instance_id, !.sink = sink]

\* start: manager.vision_pipeline = vision_pipeline; manager.use_case = ...
attach(m, p) ==
  [m EXCEPT !.vision_pipeline = p, !.use_case = "vision_pipeline",
            !.pre_use_case = IF m.vision_pipeline = NoPipeline
                             THEN m.use_case ELSE @]

\* A faulty detach that closes the camera it detaches from
detach_and_close(m, cfg_use_case) == NoManager

\* stop: manager.vision_pipeline = None; manager.use_case = cfg.get("use_case")
detach(m, cfg_use_case) ==
  [m EXCEPT !.vision_pipeline = NoPipeline, !.use_case = cfg_use_case]

\* A faulty failing start that has recorded the instance before its checks
start_fails_recording(target, algo, discoverable) ==
  /\ lastCall' = Call("start", "", start_error(target, algo, discoverable),
                      StartCause(target, algo, discoverable))
  /\ instances' = [instances EXCEPT ![IF target \in InstIds THEN target ELSE "file:vid:a"] =
                     [state |-> "running", pipeline |-> NoPipeline]]
  /\ UNCHANGED <<staticVars, svcVars, frame_no, pipelines, save_sinks,
                 file_threads, threads, taps>>

\* VisionPipelineManager.start, a call that fails: every `return None, "..."`
start_fails(target, algo, discoverable) ==
  /\ lastCall' = Call("start", "", start_error(target, algo, discoverable),
                      StartCause(target, algo, discoverable))
  /\ UNCHANGED <<staticVars, svcVars, frame_no, vpmVars>>

\* VisionPipelineManager.start, file source: thread started, instance,
\* taps and sinks recorded
start_file(algo) ==
  /\ FreePipelines # {}
  /\ LET p == CHOOSE x \in FreePipelines : \A y \in FreePipelines : x <= y
         path_abs == resolve_video_file_path(algo.source.path)
         instance_id == FileInstanceId(algo.source.kind, path_abs)
     IN /\ pipelines' = [pipelines EXCEPT ![p] = NewPipeline(instance_id, algo.sink)]
        /\ threads' = [threads EXCEPT ![p] =
              [NoFileThread EXCEPT !.state = "starting", !.inst = instance_id,
                                   !.kind = algo.source.kind]]
        /\ file_threads' = [file_threads EXCEPT ![instance_id] = p]
        /\ instances' = [instances EXCEPT ![instance_id] =
              [state |-> "running", pipeline |-> p]]
        /\ taps' = [taps EXCEPT ![instance_id][algo.tap] = p]
        /\ save_sinks' = [save_sinks EXCEPT ![instance_id] = p]
        /\ lastCall' = Call("start", instance_id, "", "")
        /\ UNCHANGED <<staticVars, svcVars, frame_no>>

\* VisionPipelineManager.start, camera source: attach to the open camera
start_camera(target, algo) ==
  /\ FreePipelines # {}
  /\ LET p == CHOOSE x \in FreePipelines : \A y \in FreePipelines : x <= y
         camera_id == start_camera_id(target, algo)
     IN /\ pipelines' = [pipelines EXCEPT ![p] = NewPipeline(camera_id, algo.sink)]
        /\ camera_managers' = [camera_managers EXCEPT ![camera_id] = attach(@, p)]
        /\ instances' = [instances EXCEPT ![camera_id] =
              [state |-> "running", pipeline |-> p]]
        /\ taps' = [taps EXCEPT ![camera_id][algo.tap] = p]
        /\ save_sinks' = [save_sinks EXCEPT ![camera_id] = p]
        /\ lastCall' = Call("start", camera_id, "", "")
        /\ UNCHANGED <<staticVars, camera_manager_running, cm_threads,
                       vision_pipeline_running, vp_threads, frame_no,
                       file_threads, threads>>

\* VisionPipelineManager.start
start(target, algo, discoverable) ==
  IF start_error(target, algo, discoverable) # ""
  THEN start_fails(target, algo, discoverable)
  ELSE IF algo.source.kind \in {"video_file", "image_file"}
  THEN start_file(algo)
  ELSE start_camera(target, algo)

\* VisionPipelineManager.stop (joined: the file thread ended within the
\* 2 s join timeout).  stop_returned is history: stop has returned for the
\* instance id the thread was started under.
stop(instance_id, joined) ==
  LET is_file == instance_id \in FileInsts
      t == IF is_file THEN file_threads[instance_id] ELSE NoThread
      p == save_sinks[instance_id]
  IN /\ instances' = [instances EXCEPT ![instance_id] =
           IF is_file \/ @.state = "none" THEN NoInstance
           ELSE [state |-> "stopped", pipeline |-> NoPipeline]]
     /\ file_threads' = IF is_file THEN [file_threads EXCEPT ![instance_id] = NoThread]
                        ELSE file_threads
     /\ threads' = [x \in PipelineIds |->
           LET th == threads[x]
           IN IF th.state \in {"none", "exited"} \/ th.inst # instance_id THEN th
              ELSE IF x = t
              THEN (IF joined THEN ExitedThread
                    ELSE [th EXCEPT !.stop_event = TRUE, !.stop_returned = TRUE])
              ELSE [th EXCEPT !.stop_returned = TRUE]]
     /\ camera_managers' =
          IF ~is_file /\ camera_managers[instance_id].open
          THEN [camera_managers EXCEPT ![instance_id] =
                  detach(@, camera_config[instance_id])]
          ELSE camera_managers
     /\ taps' = [taps EXCEPT ![instance_id] = NoTaps]
     /\ save_sinks' = [save_sinks EXCEPT ![instance_id] = NoPipeline]
     /\ pipelines' = IF p # NoPipeline
                      THEN [pipelines EXCEPT ![p] = sink_close(@)] ELSE pipelines
     /\ lastCall' = Call("stop", instance_id, "", "")
     /\ UNCHANGED <<staticVars, camera_manager_running, cm_threads,
                    vision_pipeline_running, vp_threads, frame_no>>

\* _run_video_file_loop / _run_image_file_loop: opening the file
\* (cap.isOpened() / cv2.imread)
file_loop_open(t, readable) ==
  /\ threads[t].state = "starting"
  /\ threads' = [threads EXCEPT ![t] =
                   IF readable THEN [@ EXCEPT !.state = "loop"] ELSE ExitedThread]
  /\ lastCall' = NoCall
  /\ UNCHANGED <<staticVars, svcVars, frame_no, pipelines, instances,
                 save_sinks, file_threads, taps>>

\* `while not stop_event.is_set()` lets the thread into an iteration (with a
\* frame read from the file)
file_loop_check(t) ==
  /\ threads[t].state = "loop" /\ ~threads[t].stop_event
  /\ pipelines[t].frames_processed < MaxProcessed
  /\ threads' = [threads EXCEPT ![t].state = "iteration"]
  /\ lastCall' = NoCall
  /\ UNCHANGED <<staticVars, svcVars, frame_no, pipelines, instances,
                 save_sinks, file_threads, taps>>

\* the iteration: the frame goes to the pipeline, then the thread sleeps and
\* is back at the loop condition
file_loop_step(t, outcome) ==
  /\ threads[t].state = "iteration"
  /\ pipelines' = [pipelines EXCEPT ![t] = process_frame(@, outcome)]
  /\ threads' = [threads EXCEPT ![t].state = "loop"]
  /\ lastCall' = NoCall
  /\ UNCHANGED <<staticVars, svcVars, frame_no, instances, save_sinks,
                 file_threads, taps>>

\* the loop ends: stop_event is set, or (video only) cap.read() hits the end
file_loop_exit(t) ==
  /\ threads[t].state = "loop"
  /\ threads[t].stop_event \/ threads[t].kind = "video_file"
  /\ threads' = [threads EXCEPT ![t] = ExitedThread]
  /\ lastCall' = NoCall
  /\ UNCHANGED <<staticVars, svcVars, frame_no, pipelines, instances,
                 save_sinks, file_threads, taps>>

\* ---------------------------------------------------------------- graph_model
\* GraphNode (id, type, sink_type) and GraphEdge; node ids are unique
Node(id, type, sink_type) == [id |-> id, type |-> type, sink_type |-> sink_type]

Edge(source_node, source_port, target_node, target_port) ==
  [source_node |-> source_node, source_port |-> source_port,
   target_node |-> target_node, target_port |-> target_port]

\* PipelineGraph
Graph(nodes, edges) == [nodes |-> nodes, edges |-> edges]

EmptyGraph == Graph(<<>>, <<>>)

\* node_ids = {n.id for n in graph.nodes}
node_ids(g) == {g.nodes[i].id : i \in DOMAIN g.nodes}

\* PipelineGraph.get_node
get_node(g, node_id) ==
  LET found == SelectSeq(g.nodes, LAMBDA n : n.id = node_id)
  IN IF found = <<>> THEN Node("", "", "") ELSE found[1]

\* PipelineGraph.get_sources
get_sources(g) == SelectSeq(g.nodes, LAMBDA n : n.type = "source")

\* PipelineGraph.get_sinks
get_sinks(g) == SelectSeq(g.nodes, LAMBDA n : n.type = "sink")

\* PipelineGraph._outgoing()[nid], or [] when nid is no node: the targets of
\* the edges leaving nid, in edge order
outgoing(g, nid) ==
  IF nid \notin node_ids(g) THEN <<>>
  ELSE LET es == SelectSeq(g.edges, LAMBDA e : e.source_node = nid)
       IN [i \in 1..Len(es) |-> es[i].target_node]

\* The error messages, by what they name.  NoCount: the message holds no
\* number of nodes or edges found.
NoCount == -1

\* "Cycle detected involving node {nid}"
CycleError(nid) ==
  [kind |-> "cycle", node |-> nid, port |-> "", count |-> NoCount, nodes |-> {}]

\* "Graph must have exactly one source node (CameraSource, VideoFileSource,
\* or ImageFileSource)"
NoSourceError ==
  [kind |-> "no_source", node |-> "", port |-> "", count |-> NoCount, nodes |-> {}]

\* "Graph must have exactly one source; found {len(sources)}: {ids}"
MultipleSourcesError(count, ids) ==
  [kind |-> "multiple_sources", node |-> "", port |-> "", count |-> count,
   nodes |-> ids]

\* "Unreachable nodes from source: {unreachable}"
UnreachableError(unreachable) ==
  [kind |-> "unreachable", node |-> "", port |-> "", count |-> NoCount,
   nodes |-> unreachable]

\* "Node {node_id} input port '{port}' has {count} inputs (max 1)"
MultiInputError(node_id, port, count) ==
  [kind |-> "multi_input", node |-> node_id, port |-> port, count |-> count,
   nodes |-> {}]

\* validate_dag.dfs: st holds color, errors and the value dfs returned (ok)
RECURSIVE dfs(_, _, _), dfs_targets(_, _, _)
dfs(g, nid, st) ==
  IF st.color[nid] = "GRAY"
  THEN [st EXCEPT !.errors = Append(@, CycleError(nid)), !.ok = FALSE]
  ELSE IF st.color[nid] = "BLACK"
  THEN [st EXCEPT !.ok = TRUE]
  ELSE LET after == dfs_targets(g, outgoing(g, nid),
                                [st EXCEPT !.color[nid] = "GRAY"])
       IN IF ~after.ok THEN after
          ELSE [after EXCEPT !.color[nid] = "BLACK", !.ok = TRUE]

\* validate_dag.dfs: the loop over outgoing.get(nid, [])
dfs_targets(g, targets, st) ==
  IF targets = <<>> THEN [st EXCEPT !.ok = TRUE]
  ELSE IF Head(targets) \notin node_ids(g)
  THEN dfs_targets(g, Tail(targets), st)
  ELSE LET after == dfs(g, Head(targets), st)
       IN IF ~after.ok THEN after
          ELSE dfs_targets(g, Tail(targets), after)

\* A faulty validate_dag that goes on to the next white node after a cycle
\* and returns every cycle it met
RECURSIVE dag_loop_every_cycle(_, _, _)
dag_loop_every_cycle(g, order, st) ==
  IF order = <<>> THEN st.errors
  ELSE IF st.color[Head(order)] # "WHITE"
  THEN dag_loop_every_cycle(g, Tail(order), st)
  ELSE dag_loop_every_cycle(g, Tail(order), dfs(g, Head(order), st))

\* validate_dag: the loop "for nid in node_ids"; order is the order in which
\* the set node_ids is iterated
RECURSIVE dag_loop(_, _, _)
dag_loop(g, order, st) ==
  IF order = <<>> THEN <<>>
  ELSE IF st.color[Head(order)] # "WHITE"
  THEN dag_loop(g, Tail(order), st)
  ELSE LET after == dfs(g, Head(order), st)
       IN IF ~after.ok THEN after.errors
          ELSE dag_loop(g, Tail(order), after)

\* validate_dag: the errors it returns (valid = no error)
validate_dag(g, order) ==
  dag_loop(g, order, [color |-> [n \in node_ids(g) |-> "WHITE"],
                      errors |-> <<>>, ok |-> TRUE])

\* A faulty breadth-first search that follows the edges in both directions
RECURSIVE bfs_undirected(_, _, _)
bfs_undirected(g, queue, reachable) ==
  IF queue = <<>> THEN reachable
  ELSE LET nid == Head(queue)
           seen == reachable \cup {nid}
           into == SelectSeq(g.edges, LAMBDA e : e.target_node = nid)
           back == [i \in 1..Len(into) |-> into[i].source_node]
       IN IF nid \in reachable THEN bfs_undirected(g, Tail(queue), reachable)
          ELSE bfs_undirected(g,
                   Tail(queue) \o SelectSeq(outgoing(g, nid) \o back,
                       LAMBDA target : target \in node_ids(g) /\ target \notin seen),
                   seen)

\* validate_single_source: the breadth-first search from the source
RECURSIVE bfs(_, _, _)
bfs(g, queue, reachable) ==
  IF queue = <<>> THEN reachable
  ELSE LET nid == Head(queue)
           seen == reachable \cup {nid}
       IN IF nid \in reachable THEN bfs(g, Tail(queue), reachable)
          ELSE bfs(g,
                   Tail(queue) \o SelectSeq(outgoing(g, nid),
                       LAMBDA target : target \in node_ids(g) /\ target \notin seen),
                   seen)

\* A faulty validate_single_source that takes the first source when there are
\* several and goes on to the reachability search
validate_single_source_first_of_many(g) ==
  LET sources == get_sources(g)
  IN IF Len(sources) = 0 THEN <<NoSourceError>>
     ELSE LET unreachable == node_ids(g) \ bfs(g, <<sources[1].id>>, {})
          IN IF unreachable # {} THEN <<UnreachableError(unreachable)>>
             ELSE <<>>

\* validate_single_source: the errors it returns
validate_single_source(g) ==
  LET sources == get_sources(g)
  IN IF Len(sources) = 0 THEN <<NoSourceError>>
     ELSE IF Len(sources) > 1
     THEN <<MultipleSourcesError(Len(sources),
                                 {sources[i].id : i \in DOMAIN sources})>>
     ELSE LET unreachable == node_ids(g) \ bfs(g, <<sources[1].id>>, {})
          IN IF unreachable # {} THEN <<UnreachableError(unreachable)>>
             ELSE <<>>

\* A faulty grouping that keeps one key per edge, not one per distinct key
RECURSIVE port_keys_per_edge(_, _)
port_keys_per_edge(edges, keys) ==
  IF edges = <<>> THEN keys
  ELSE port_keys_per_edge(Tail(edges),
         Append(keys, <<Head(edges).target_node, Head(edges).target_port>>))

\* validate_single_input_per_port: the keys of port_inputs in insertion order
RECURSIVE port_keys(_, _)
port_keys(edges, keys) ==
  IF edges = <<>> THEN keys
  ELSE LET key == <<Head(edges).target_node, Head(edges).target_port>>
       IN port_keys(Tail(edges),
                    IF \E i \in DOMAIN keys : keys[i] = key THEN keys
                    ELSE Append(keys, key))

\* A faulty count that groups the edges by target node alone
port_inputs_per_node(g, key) ==
  Cardinality({i \in DOMAIN g.edges : g.edges[i].target_node = key[1]})

\* port_inputs[key]
port_inputs(g, key) ==
  Cardinality({i \in DOMAIN g.edges :
                 <<g.edges[i].target_node, g.edges[i].target_port>> = key})

\* validate_single_input_per_port: the errors it returns
validate_single_input_per_port(g) ==
  LET keys == port_keys(g.edges, <<>>)
      over == SelectSeq(keys, LAMBDA key : port_inputs(g, key) > 1)
  IN [i \in 1..Len(over) |->
        MultiInputError(over[i][1], over[i][2], port_inputs(g, over[i]))]

\* A faulty validate_graph that raises at the first check that fails
validate_graph_first_failure(g, order) ==
  LET all_errors ==
        IF validate_dag(g, order) # <<>> THEN validate_dag(g, order)
        ELSE IF validate_single_source(g) # <<>> THEN validate_single_source(g)
        ELSE validate_single_input_per_port(g)
  IN [done |-> TRUE, raised |-> all_errors # <<>>, errors |-> all_errors]

\* validate_graph: raised tells whether GraphValidationError was raised,
\* errors is its errors list
validate_graph(g, order) ==
  LET all_errors == validate_dag(g, order) \o validate_single_source(g)
                    \o validate_single_input_per_port(g)
  IN [done |-> TRUE, raised |-> all_errors # <<>>, errors |-> all_errors]

NotValidated == [done |-> FALSE, raised |-> FALSE, errors |-> <<>>]

NotCompiled ==
  [done |-> FALSE, raised |-> FALSE, errors |-> <<>>, main_path |-> <<>>,
   side_taps |-> <<>>]

\* ------------------------------------------------- graphs given to validation
\* A graph has the nodes of a prefix of NodeNames; its edges may name any of
\* them, also one the graph does not have
NodeNames == <<"n1", "n2", "n3">>

Ports == {"in", "aux"}

\* node.type as validation sees it: a source or not
ValidationKinds == {"source", "stage"}

Endpoints == {NodeNames[i] : i \in DOMAIN NodeNames}

EdgeChoices ==
  {Edge(s, "out", t, p) : s \in Endpoints, t \in Endpoints, p \in Ports}

EdgeSeqs == UNION {[1..k -> EdgeChoices] : k \in 0..MaxEdges}

ValidationGraphs ==
  {Graph([i \in 1..Len(kinds) |-> Node(NodeNames[i], kinds[i], "")], edges) :
     kinds \in UNION {[1..k -> ValidationKinds] : k \in 0..Len(NodeNames)},
     edges \in EdgeSeqs}

\* the orders in which a set of node ids can be iterated
Orders(S) ==
  {o \in [1..Cardinality(S) -> S] :
     \A i \in DOMAIN o, j \in DOMAIN o : i # j => o[i] # o[j]}

\* ------------------------------------------------------------ runtime_compiler
SIDE_TAP_SINK_TYPES == {"stream_tap", "save_video", "save_image"}

\* _outgoing_edges(graph).get(nid, []): the edges leaving nid, in edge order
outgoing_edges(g, nid) ==
  IF nid \notin node_ids(g) THEN <<>>
  ELSE SelectSeq(g.edges, LAMBDA e : e.source_node = nid)

\* _find_svt_output: the id of the first svt_output sink, "" for None
find_svt_output(g) ==
  LET outputs == SelectSeq(get_sinks(g), LAMBDA n : n.sink_type = "svt_output")
  IN IF outputs = <<>> THEN "" ELSE outputs[1].id

NoPath == [found |-> FALSE, path |-> <<>>]

RECURSIVE find_path_dfs(_, _, _, _, _), find_path_next(_, _, _, _, _)

\* A faulty _find_path_dfs that returns the path walked so far, without the
\* target it has just reached
find_path_dfs_without_target(g, start_id, target, visited, path) ==
  IF start_id = target THEN [found |-> TRUE, path |-> path]
  ELSE IF start_id \in visited THEN NoPath
  ELSE find_path_next(g, outgoing_edges(g, start_id), target,
                      visited \cup {start_id}, Append(path, start_id))

\* _find_path_dfs
find_path_dfs(g, start_id, target, visited, path) ==
  IF start_id = target THEN [found |-> TRUE, path |-> Append(path, start_id)]
  ELSE IF start_id \in visited THEN NoPath
  ELSE find_path_next(g, outgoing_edges(g, start_id), target,
                      visited \cup {start_id}, Append(path, start_id))

\* _find_path_dfs: the loop over outgoing.get(start_id, []); visited already
\* holds start_id and each call gets its own copy, path is path + [start_id]
find_path_next(g, nexts, target, visited, path) ==
  IF nexts = <<>> THEN NoPath
  ELSE LET result == find_path_dfs(g, Head(nexts).target_node, target,
                                   visited, path)
       IN IF result.found THEN result
          ELSE find_path_next(g, Tail(nexts), target, visited, path)

\* _nodes_reachable_from: every id an edge chain from start leads to, node of
\* the graph or not
RECURSIVE nodes_reachable_from(_, _, _)
nodes_reachable_from(g, queue, reachable) ==
  IF queue = <<>> THEN reachable
  ELSE LET nexts == outgoing_edges(g, Head(queue))
           fresh == {nexts[i].target_node : i \in DOMAIN nexts} \ reachable
           added == SelectSeq([i \in DOMAIN nexts |-> nexts[i].target_node],
                              LAMBDA nxt : nxt \notin reachable)
       IN nodes_reachable_from(g, Tail(queue) \o added, reachable \cup fresh)

\* whether e feeds a side-tap sink: compile_graph tests this in steps 3b and 4
feeds_side_tap(g, e) ==
  /\ e.target_node \in node_ids(g)
  /\ get_node(g, e.target_node).sink_type \in SIDE_TAP_SINK_TYPES

\* compile_graph step 3b: side_tap_edges
side_tap_edges(g, source) ==
  LET reachable == nodes_reachable_from(g, <<source>>, {source})
  IN SelectSeq(g.edges,
               LAMBDA e : e.source_node \in reachable /\ feeds_side_tap(g, e))

\* compile_graph step 3b: attach_points
attach_points(g) ==
  IF get_sources(g) = <<>> THEN {}
  ELSE LET es == side_tap_edges(g, get_sources(g)[1].id)
       IN {es[i].source_node : i \in DOMAIN es}

\* compile_graph step 3b: the loop "for ap in attach_points", iterated in
\* the order ap_order
RECURSIVE best_path(_, _, _, _)
best_path(g, source, ap_order, best) ==
  IF ap_order = <<>> THEN best
  ELSE LET p == find_path_dfs(g, source, Head(ap_order), {}, <<>>)
       IN best_path(g, source, Tail(ap_order),
                    IF p.found /\ Len(p.path) > Len(best) THEN p.path ELSE best)

SideTap(node_id, sink_type, attach_point, source_port, target_port) ==
  [node_id |-> node_id, sink_type |-> sink_type, attach_point |-> attach_point,
   source_port |-> source_port, target_port |-> target_port]

\* A faulty step 4 that takes every edge into a side-tap sink, on the main
\* path or not
extract_side_taps_anywhere(g, main_path) ==
  LET es == SelectSeq(g.edges, LAMBDA e : feeds_side_tap(g, e))
  IN [i \in 1..Len(es) |->
        SideTap(es[i].target_node, get_node(g, es[i].target_node).sink_type,
                es[i].source_node, es[i].source_port, es[i].target_port)]

\* compile_graph step 4: extract side taps
extract_side_taps(g, main_path) ==
  LET main_path_set == {main_path[i] : i \in DOMAIN main_path}
      es == SelectSeq(g.edges,
              LAMBDA e : feeds_side_tap(g, e) /\ e.source_node \in main_path_set)
  IN [i \in 1..Len(es) |->
        SideTap(es[i].target_node, get_node(g, es[i].target_node).sink_type,
                es[i].source_node, es[i].source_port, es[i].target_port)]

\* GraphValidationError raised by compile_graph itself
CompileError(kind) ==
  [kind |-> kind, node |-> "", port |-> "", count |-> NoCount, nodes |-> {}]

Raised(errors) ==
  [done |-> TRUE, raised |-> TRUE, errors |-> errors, main_path |-> <<>>,
   side_taps |-> <<>>]

\* ExecutionPlan
ExecutionPlan(main_path, side_taps) ==
  [done |-> TRUE, raised |-> FALSE, errors |-> <<>>, main_path |-> main_path,
   side_taps |-> side_taps]

\* compile_graph step 3a: the main path ends at the SVTVisionOutput sink
compile_with_output(g, source, svt_sink) ==
  LET path == find_path_dfs(g, source, svt_sink, {}, <<>>)
  IN IF ~path.found THEN Raised(<<CompileError("no_path_to_output")>>)
     ELSE ExecutionPlan(path.path, extract_side_taps(g, path.path))

\* A faulty step 3b that refuses every graph without an SVTVisionOutput sink
compile_without_output_refused(g, source, ap_order) ==
  Raised(<<CompileError("no_output")>>)

\* compile_graph step 3b: no SVTVisionOutput sink
compile_without_output(g, source, ap_order) ==
  IF side_tap_edges(g, source) = <<>>
  THEN Raised(<<CompileError("no_output")>>)
  ELSE LET main_path == best_path(g, source, ap_order, <<source>>)
       IN ExecutionPlan(main_path, extract_side_taps(g, main_path))

\* A faulty compile_graph that skips step 1, the call of validate_graph
compile_graph_unvalidated(g, order, ap_order) ==
  LET sources == get_sources(g)
  IN IF sources = <<>> THEN Raised(<<CompileError("no_source_node")>>)
     ELSE IF find_svt_output(g) # ""
     THEN compile_with_output(g, sources[1].id, find_svt_output(g))
     ELSE compile_without_output(g, sources[1].id, ap_order)

\* compile_graph (order: iteration order of node_ids in validate_dag,
\* ap_order: iteration order of attach_points)
compile_graph(g, order, ap_order) ==
  LET checked == validate_graph(g, order)
      sources == get_sources(g)
  IN IF checked.raised THEN Raised(checked.errors)
     ELSE IF sources = <<>> THEN Raised(<<CompileError("no_source_node")>>)
     ELSE IF find_svt_output(g) # ""
     THEN compile_with_output(g, sources[1].id, find_svt_output(g))
     ELSE compile_without_output(g, sources[1].id, ap_order)

\* --------------------------------------------------- graphs given to compile
\* (type, sink_type) of a node that is not the source
CompileKinds == {<<"stage", "">>, <<"sink", "svt_output">>, <<"sink", "stream_tap">>}

\* n1 is the source; the other nodes are of any kind, the edges are any
SmallGraphs ==
  {Graph(<<Node(NodeNames[1], "source", "")>>
           \o [i \in 1..Len(kinds) |->
                 Node(NodeNames[i + 1], kinds[i][1], kinds[i][2])],
         edges) :
     kinds \in UNION {[1..k -> CompileKinds] : k \in 0..(Len(NodeNames) - 1)},
     edges \in EdgeSeqs}

\* source -> stageA -> stageB -> SVTVisionOutput
LinearChain ==
  Graph(<<Node("n1", "source", ""), Node("n2", "stage", ""),
          Node("n3", "stage", ""), Node("n4", "sink", "svt_output")>>,
        <<Edge("n1", "out", "n2", "in"), Edge("n2", "out", "n3", "in"),
          Edge("n3", "out", "n4", "in")>>)

\* source -> stage -> last, where last is the SVTVisionOutput sink or a
\* second stage
Chain(last) ==
  Graph(<<Node("n1", "source", ""), Node("n2", "stage", ""),
          Node("n3", last[1], last[2])>>,
        <<Edge("n1", "out", "n2", "in"), Edge("n2", "out", "n3", "in")>>)

\* a side-tap sink fed by the node from, or left out of the graph
WithTap(g, id, sink_type, from) ==
  IF from = "" THEN g
  ELSE Graph(Append(g.nodes, Node(id, "sink", sink_type)),
             Append(g.edges, Edge(from, "out", id, "in")))

\* the chain with a StreamTap n4 and a SaveVideo n5, each fed by any node or
\* left out
TapPlacements ==
  {WithTap(WithTap(Chain(last), "n4", "stream_tap", tap), "n5", "save_video", save) :
     last \in {<<"sink", "svt_output">>, <<"stage", "">>},
     tap \in {"", "n1", "n2", "n3", "n5"},
     save \in {"", "n1", "n2", "n3", "n4"}}

\* two sources feeding one SVTVisionOutput sink
TwoSourceGraph ==
  Graph(<<Node("n1", "source", ""), Node("n2", "source", ""),
          Node("n3", "sink", "svt_output")>>,
        <<Edge("n1", "out", "n3", "in"), Edge("n2", "out", "n3", "in")>>)

\* source -> stageA -> stageB -> StreamTap with a second edge from the source
\* straight into another port of stageB, listed before or after the edge to
\* stageA
Diamond(direct_first) ==
  LET direct == Edge("n1", "out", "n3", "aux")
      by_stage == Edge("n1", "out", "n2", "in")
  IN Graph(<<Node("n1", "source", ""), Node("n2", "stage", ""),
             Node("n3", "stage", ""), Node("n4", "sink", "stream_tap")>>,
           (IF direct_first THEN <<direct, by_stage>> ELSE <<by_stage, direct>>)
             \o <<Edge("n2", "out", "n3", "in"), Edge("n3", "out", "n4", "in")>>)

CompileGraphs ==
  SmallGraphs \cup TapPlacements
    \cup {LinearChain, TwoSourceGraph, EmptyGraph, Diamond(TRUE), Diamond(FALSE)}

\* ------------------------------------------------------------ pipeline_builder
\* A faulty table that names each stage after its stage_id
STAGE_ID_AS_NAME ==
  [stage_id \in {"preprocess_cpu", "preprocess_gpu", "detect_apriltag_cpu",
                 "overlay_cpu"} |-> stage_id]

STAGE_ID_TO_NAME ==
  [stage_id \in {"preprocess_cpu", "preprocess_gpu", "detect_apriltag_cpu",
                 "overlay_cpu"} |->
     CASE stage_id = "detect_apriltag_cpu" -> "detect"
       [] stage_id = "overlay_cpu" -> "detect_overlay"
       [] OTHER -> "preprocess"]

\* build_pipeline_with_taps returned None / has not been called (stage_ids is
\* history: the stage_id of each node of the request the build was made for)
NoBuild ==
  [done |-> FALSE, ok |-> FALSE, stages |-> <<>>, stream_taps |-> <<>>,
   save_sinks |-> <<>>, side_taps_by_stage |-> <<>>, stage_ids |-> <<>>]

\* a StreamTap, SaveVideoSink or SaveImageSink the builder creates; attach_stage
\* is the key of side_taps_by_stage it is appended under
BuiltTap(id, sink_type, attach_point, attach_stage) ==
  [id |-> id, sink_type |-> sink_type, attach_point |-> attach_point,
   attach_stage |-> attach_stage]

\* A faulty builder rule that adds the preview tap to every pipeline
preview_always(stream_taps, main_path) ==
  IF main_path # <<>>
  THEN <<BuiltTap("preview", "stream_tap", main_path[1], "__source__")>>
  ELSE <<>>

\* build_pipeline_with_taps: the preview tap it adds
preview_tap(stream_taps, main_path) ==
  IF stream_taps = <<>> /\ main_path # <<>>
  THEN <<BuiltTap("preview", "stream_tap", main_path[1], "__source__")>>
  ELSE <<>>

\* build_pipeline_with_taps (p: the ExecutionPlan, nodes: the node list of the
\* request, stage_ids: the stage_id each node carries)
build_pipeline_with_taps(p, nodes, stage_ids) ==
  LET node_by_id == {nodes[i].id : i \in DOMAIN nodes}
      is_stage(nid) ==
        \E i \in DOMAIN nodes : nodes[i].id = nid /\ nodes[i].type = "stage"
      stage_nodes == SelectSeq(p.main_path, is_stage)
      unknown == \E i \in DOMAIN stage_nodes :
                   stage_ids[stage_nodes[i]] \notin DOMAIN STAGE_ID_TO_NAME
      stages == [i \in DOMAIN stage_nodes |->
                   STAGE_ID_TO_NAME[stage_ids[stage_nodes[i]]]]
      main_path_set == {p.main_path[i] : i \in DOMAIN p.main_path}
      attach_stage(ap) ==
        IF \E i \in DOMAIN stage_nodes : stage_nodes[i] = ap
        THEN STAGE_ID_TO_NAME[stage_ids[ap]]
        ELSE IF ap \in main_path_set THEN "__source__" ELSE ""
      attached == SelectSeq(p.side_taps,
                            LAMBDA st : attach_stage(st.attach_point) # "")
      created == [i \in DOMAIN attached |->
                    BuiltTap(attached[i].node_id, attached[i].sink_type,
                             attached[i].attach_point,
                             attach_stage(attached[i].attach_point))]
      stream_taps == SelectSeq(created, LAMBDA t : t.sink_type = "stream_tap")
      sinks == SelectSeq(created, LAMBDA t : t.sink_type # "stream_tap")
      all_stream_taps == stream_taps \o preview_tap(stream_taps, p.main_path)
      source_taps == \E i \in DOMAIN created : created[i].attach_stage = "__source__"
  IN IF unknown THEN [NoBuild EXCEPT !.done = TRUE]
     ELSE IF stages = <<>> /\ ~source_taps
                           /\ preview_tap(stream_taps, p.main_path) = <<>>
     THEN [NoBuild EXCEPT !.done = TRUE]
     ELSE [done |-> TRUE, ok |-> TRUE, stages |-> stages,
           stream_taps |-> all_stream_taps, save_sinks |-> sinks,
           side_taps_by_stage |-> created \o preview_tap(stream_taps, p.main_path),
           stage_ids |-> <<>>]

\* no frame has been run through the built pipeline
NoTapFrames == [fed |-> FALSE, pushes |-> <<>>]

\* tap.push_frame(frame) for every tap of self._stream_taps.get(name, []):
\* the calls made, in order (a frame is written as the position of the stage
\* that put it out, 0 for the raw frame; a tap object as its position in
\* stream_taps)
push_to_taps(stream_taps, name, frame) ==
  LET attached == SelectSeq([j \in DOMAIN stream_taps |-> j],
                            LAMBDA j : stream_taps[j].attach_stage = name)
  IN [k \in DOMAIN attached |-> [tap |-> attached[k], frame |-> frame]]

\* VisionPipeline.process_frame, the stage loop from stage i on, for a frame
\* every stage puts out a frame for
RECURSIVE dispatch_stages(_, _, _)
dispatch_stages(stages, stream_taps, i) ==
  IF i > Len(stages) THEN <<>>
  ELSE push_to_taps(stream_taps, stages[i], i)
         \o dispatch_stages(stages, stream_taps, i + 1)

\* VisionPipeline.process_frame: the push_frame calls of one call
dispatch_taps(stages, stream_taps) ==
  push_to_taps(stream_taps, "__source__", 0)
    \o dispatch_stages(stages, stream_taps, 1)

\* the stage_id a stage node of a request may carry
StageIds ==
  {"preprocess_cpu", "preprocess_gpu", "detect_apriltag_cpu", "overlay_cpu",
   "blur_cpu"}

\* the stage_id of every node of a request: any of StageIds for a stage node,
\* none for a source or a sink
StageIdsOf(g) ==
  LET stage_nodes == {g.nodes[i].id : i \in {j \in DOMAIN g.nodes :
                                               g.nodes[j].type = "stage"}}
  IN {[nid \in node_ids(g) |-> IF nid \in stage_nodes THEN ids[nid] ELSE ""] :
        ids \in [stage_nodes -> StageIds]}

\* ---------------------------------------------------------------------- locks
\* The locks of CameraService and of each CameraManager, and the threads that
\* take them: the capture loop, the consumer loop and the event loop that runs
\* every API handler (the handlers are coroutines of one thread).  A manager's
\* locks are named by its camera id.
LoopThreads == {"capture", "consumer"}
LockThreads == LoopThreads \cup {"api"}

ServiceLocks == {"camera_manager_lock", "vision_pipeline_thread_lock"}
ManagerLocks == {"frame_queue_lock", "raw_frame_queue_lock", "metrics_lock"}

ServiceLock(name) == <<"service", name>>
ManagerLock(c, name) == <<c, name>>
Locks == ({"service"} \X ServiceLocks) \cup (Cameras \X ManagerLocks)
NoLock == <<"", "">>

\* one statement a thread has still to execute
Ins(op, lock, id, arg) == [op |-> op, lock |-> lock, id |-> id, arg |-> arg]
Acquire(l) == Ins("acquire", l, "", "")
Release(l) == Ins("release", l, "", "")
Do(op, id, arg) == Ins(op, NoLock, id, arg)

\* with lock: body
With(l, body) == <<Acquire(l)>> \o body \o <<Release(l)>>

\* the order in which a snapshot of camera_managers lists the cameras
CameraOrder == <<"c1", "c2">>

\* one statement `op` for each camera of S, in that order
Visits(op, S) ==
  LET cams == SelectSeq(CameraOrder, LAMBDA c : c \in S)
  IN [i \in 1..Len(cams) |-> Do(op, cams[i], "")]

\* CameraManager.close: the queues are cleared, each under its lock
manager_close(c) ==
  With(ManagerLock(c, "frame_queue_lock"), <<>>)
    \o With(ManagerLock(c, "raw_frame_queue_lock"), <<>>)

\* CameraService.open_camera, from `self.camera_managers[camera_id] = manager`
open_camera_body(c, use_case) ==
  <<Do("insert", c, use_case)>>
    \o With(ServiceLock("camera_manager_lock"),
            <<Do("ensure_camera_manager_thread", "", "")>>)
    \o With(ServiceLock("vision_pipeline_thread_lock"),
            <<Do("ensure_vision_pipeline_thread", "", "")>>)

\* CameraService.close_camera, from `manager.close()`
close_camera_body(c) ==
  manager_close(c)
    \o <<Do("delete", c, "")>>
    \o With(ServiceLock("camera_manager_lock"),
            <<Do("stop_camera_manager_thread", "", "")>>)
    \o <<Do("stop_vision_pipeline_thread", "", "")>>

\* CameraManager.get_metrics
get_metrics_body(c) == With(ManagerLock(c, "metrics_lock"), <<>>)

\* CameraManager.get_latest_frame("raw")
get_latest_frame_body(c) == With(ManagerLock(c, "frame_queue_lock"), <<>>)

\* CameraManager.enqueue_raw_frame (dropped: the full queue kept its length)
enqueue_raw_frame_body(c, dropped) ==
  With(ManagerLock(c, "raw_frame_queue_lock"),
       IF dropped THEN With(ManagerLock(c, "metrics_lock"), <<>>) ELSE <<>>)
    \o With(ManagerLock(c, "metrics_lock"), <<>>)

\* _camera_manager_loop, the body of `for camera_id, manager in
\* cameras_to_process` for a manager whose device is open (captured:
\* capture_frame_raw gave a frame; encoded: cv2.imencode gave bytes)
capture_body(m, c, captured, encoded, dropped) ==
  IF ~captured
  THEN With(ManagerLock(c, "metrics_lock"), <<>>)
  ELSE IF m.vision_pipeline # NoPipeline
          /\ m.use_case \in {"apriltag", "vision_pipeline"}
  THEN enqueue_raw_frame_body(c, dropped)
  ELSE IF encoded
  THEN With(ManagerLock(c, "frame_queue_lock"), <<>>)
         \o With(ManagerLock(c, "metrics_lock"), <<>>)
  ELSE With(ManagerLock(c, "metrics_lock"), <<>>)

\* CameraManager.process_vision_pipeline (popped: the raw queue held a frame)
process_vision_pipeline_body(m, c, popped_frame, outcome, dropped) ==
  IF m.vision_pipeline = NoPipeline \/ m.use_case # "apriltag"
  THEN <<>>
  ELSE With(ManagerLock(c, "raw_frame_queue_lock"), <<>>)
         \o (IF ~popped_frame THEN <<>>
             ELSE IF outcome = "raised"
             THEN With(ManagerLock(c, "metrics_lock"), <<>>)
             ELSE With(ManagerLock(c, "frame_queue_lock"),
                       IF dropped THEN With(ManagerLock(c, "metrics_lock"), <<>>)
                       ELSE <<>>))

\* the running flag of a loop thread
running_flag(t) ==
  IF t = "capture" THEN camera_manager_running ELSE vision_pipeline_running

\* the next statement of thread t
Next_ins(t) == Head(todo[t])

At(t, op) == todo[t] # <<>> /\ Next_ins(t).op = op

\* all the variables a step of a thread writes
lock_step(cms, cm_run, vp_run, holder, td, ls) ==
  /\ camera_managers' = cms
  /\ camera_manager_running' = cm_run
  /\ vision_pipeline_running' = vp_run
  /\ lock_holder' = holder
  /\ todo' = td
  /\ loop_state' = ls
  /\ cm_threads' = IF ls["capture"] = "loop" THEN 1 ELSE 0
  /\ vp_threads' = IF ls["consumer"] = "loop" THEN 1 ELSE 0
  /\ lastCall' = NoCall
  /\ UNCHANGED <<camera_config, frame_no, vpmVars, graph, validation, plan,
                 benchVars, orderVars, frameVars, feedVars>>

\* a step that only moves thread t on to the statements td
goes_on(t, td) ==
  lock_step(camera_managers, camera_manager_running, vision_pipeline_running,
            lock_holder, [todo EXCEPT ![t] = td], loop_state)

\* "with lock:" entered by thread t (threading.Lock: the thread waits while
\* another thread is inside)
lock_acquire(t) ==
  /\ At(t, "acquire")
  /\ lock_holder[Next_ins(t).lock] = ""
  /\ lock_step(camera_managers, camera_manager_running, vision_pipeline_running,
               [lock_holder EXCEPT ![Next_ins(t).lock] = t],
               [todo EXCEPT ![t] = Tail(@)], loop_state)

\* "with lock:" left by thread t
lock_release(t) ==
  /\ At(t, "release")
  /\ lock_step(camera_managers, camera_manager_running, vision_pipeline_running,
               [lock_holder EXCEPT ![Next_ins(t).lock] = ""],
               [todo EXCEPT ![t] = Tail(@)], loop_state)

\* open_camera: self.camera_managers[camera_id] = manager
map_insert ==
  /\ At("api", "insert")
  /\ lock_step([camera_managers EXCEPT ![Next_ins("api").id] =
                  NewManager(Next_ins("api").arg)],
               camera_manager_running, vision_pipeline_running, lock_holder,
               [todo EXCEPT !["api"] = Tail(@)], loop_state)

\* close_camera: del self.camera_managers[camera_id]
map_delete ==
  /\ At("api", "delete")
  /\ lock_step([camera_managers EXCEPT ![Next_ins("api").id] = NoManager],
               camera_manager_running, vision_pipeline_running, lock_holder,
               [todo EXCEPT !["api"] = Tail(@)], loop_state)

\* _ensure_camera_manager_thread_running, inside the lock
ensure_camera_manager_thread ==
  /\ At("api", "ensure_camera_manager_thread")
  /\ LET started == ensure_camera_manager_thread_running(camera_manager_running,
                                                         camera_managers)
     IN lock_step(camera_managers, camera_manager_running \/ started,
                  vision_pipeline_running, lock_holder,
                  [todo EXCEPT !["api"] = Tail(@),
                               !["capture"] = IF started THEN <<>> ELSE @],
                  [loop_state EXCEPT !["capture"] = IF started THEN "loop" ELSE @])

\* _ensure_vision_pipeline_thread_running, inside the lock
ensure_vision_pipeline_thread ==
  /\ At("api", "ensure_vision_pipeline_thread")
  /\ LET started == ensure_vision_pipeline_thread_running(vision_pipeline_running,
                                                          camera_managers)
     IN lock_step(camera_managers, camera_manager_running,
                  vision_pipeline_running \/ started, lock_holder,
                  [todo EXCEPT !["api"] = Tail(@),
                               !["consumer"] = IF started THEN <<>> ELSE @],
                  [loop_state EXCEPT !["consumer"] = IF started THEN "loop" ELSE @])

\* close_camera: `if len(self.camera_managers) == 0:
\* self._stop_camera_manager_thread()`, up to the join
stop_camera_manager_thread ==
  /\ At("api", "stop_camera_manager_thread")
  /\ LET stopped == OpenCameras = {} /\ camera_manager_running
     IN lock_step(camera_managers, camera_manager_running /\ ~stopped,
                  vision_pipeline_running, lock_holder,
                  [todo EXCEPT !["api"] =
                     (IF stopped THEN <<Do("join", "capture", "")>> ELSE <<>>)
                       \o Tail(@)],
                  loop_state)

\* close_camera: `if cameras_with_pipelines == 0:
\* self._stop_vision_pipeline_thread()`, up to the join
stop_vision_pipeline_thread ==
  /\ At("api", "stop_vision_pipeline_thread")
  /\ LET stopped == ~HasPipelines(camera_managers) /\ vision_pipeline_running
     IN lock_step(camera_managers, camera_manager_running,
                  vision_pipeline_running /\ ~stopped, lock_holder,
                  [todo EXCEPT !["api"] =
                     (IF stopped THEN <<Do("join", "consumer", "")>> ELSE <<>>)
                       \o Tail(@)],
                  loop_state)

\* thread.join(timeout=2.0) returns: the thread has ended, or 2 s have passed
join_returns ==
  /\ At("api", "join")
  /\ goes_on("api", Tail(todo["api"]))

\* the top of `while self.camera_manager_running:` / `while
\* self.vision_pipeline_running:` -- the loop ends, or an iteration begins
loop_top(t) ==
  /\ loop_state[t] = "loop" /\ todo[t] = <<>>
  /\ IF ~running_flag(t)
     THEN lock_step(camera_managers, camera_manager_running,
                    vision_pipeline_running, lock_holder, todo,
                    [loop_state EXCEPT ![t] = "ended"])
     ELSE goes_on(t, IF t = "capture"
                     THEN With(ServiceLock("camera_manager_lock"),
                               <<Do("snapshot", "", "")>>)
                     ELSE <<Acquire(ServiceLock("vision_pipeline_thread_lock")),
                            Do("recheck", "", "")>>)

\* _camera_manager_loop: cameras_to_process = list(self.camera_managers.items())
\* (one call into the interpreter: no other thread runs inside it)
capture_snapshot ==
  /\ At("capture", "snapshot")
  /\ goes_on("capture",
             Tail(todo["capture"])
               \o Visits("capture", OpenCameras))

\* _camera_manager_loop: one camera of the snapshot
capture_visit ==
  /\ At("capture", "capture")
  /\ LET c == Next_ins("capture").id
         m == camera_managers[c]
     IN IF ~camera_manager_running
        THEN goes_on("capture", <<>>)
        ELSE IF ~m.open
        THEN goes_on("capture", Tail(todo["capture"]))
        ELSE \E captured \in BOOLEAN, encoded \in BOOLEAN, dropped \in BOOLEAN :
               goes_on("capture",
                       capture_body(m, c, captured, encoded, dropped)
                         \o Tail(todo["capture"]))

\* _vision_pipeline_loop: `if not self.vision_pipeline_running: break` inside
\* the lock, then the list comprehension over camera_managers.items() begins
consumer_recheck ==
  /\ At("consumer", "recheck")
  /\ goes_on("consumer",
             IF ~vision_pipeline_running
             THEN <<Release(ServiceLock("vision_pipeline_thread_lock")),
                    Do("break", "", "")>>
             ELSE <<Do("iterate", "",
                       [size |-> Cardinality(OpenCameras), left |-> OpenCameras,
                        got |-> {}])>>)

\* _vision_pipeline_loop: the loop was left by `break`
consumer_break ==
  /\ At("consumer", "break")
  /\ lock_step(camera_managers, camera_manager_running, vision_pipeline_running,
               lock_holder, [todo EXCEPT !["consumer"] = <<>>],
               [loop_state EXCEPT !["consumer"] = "ended"])

\* _vision_pipeline_loop: the next item of the comprehension -- the dict
\* iterator raises RuntimeError when the dict has changed size, the exception
\* leaves the "with" block and ends the thread; else the item is kept when
\* its filter holds, and the comprehension ends when no item is left
consumer_iterate ==
  /\ At("consumer", "iterate")
  /\ LET it == Next_ins("consumer").arg
         rest == it.left \cap OpenCameras
     IN IF Cardinality(OpenCameras) # it.size
        THEN lock_step(camera_managers, camera_manager_running,
                       vision_pipeline_running,
                       [lock_holder EXCEPT
                          ![ServiceLock("vision_pipeline_thread_lock")] = ""],
                       [todo EXCEPT !["consumer"] = <<>>],
                       [loop_state EXCEPT !["consumer"] = "crashed"])
        ELSE IF rest = {}
        THEN goes_on("consumer",
                     <<Release(ServiceLock("vision_pipeline_thread_lock"))>>
                       \o Visits("process", it.got))
        ELSE LET c == CHOOSE x \in rest :
                        \A i, j \in DOMAIN CameraOrder :
                          CameraOrder[i] = x /\ CameraOrder[j] \in rest => i <= j
                 m == camera_managers[c]
                 kept == /\ m.vision_pipeline # NoPipeline
                         /\ m.use_case = "vision_pipeline"
             IN goes_on("consumer",
                        <<Do("iterate", "",
                             [size |-> it.size, left |-> it.left \ {c},
                              got |-> IF kept THEN it.got \cup {c} ELSE it.got])>>)

\* _vision_pipeline_loop: one camera of the snapshot
consumer_visit ==
  /\ At("consumer", "process")
  /\ LET c == Next_ins("consumer").id
         m == camera_managers[c]
     IN IF ~vision_pipeline_running
        THEN goes_on("consumer", <<>>)
        ELSE \E popped_frame \in BOOLEAN, outcome \in Outcomes, dropped \in BOOLEAN :
               /\ m.vision_pipeline = NoPipeline \/ m.use_case # "apriltag"
                    => ~popped_frame /\ outcome = "ok" /\ ~dropped
               /\ goes_on("consumer",
                          process_vision_pipeline_body(m, c, popped_frame, outcome,
                                                       dropped)
                            \o Tail(todo["consumer"]))

\* the event loop takes up a handler that calls open_camera, close_camera,
\* get_metrics or get_latest_frame
ApiOps == {"open_camera", "close_camera", "get_metrics", "get_latest_frame"}

api_call(op, c, stream_only) ==
  /\ todo["api"] = <<>>
  /\ op = "open_camera" =>
       \A t \in LoopThreads : loop_state[t] = "loop" => running_flag(t)
  /\ goes_on("api",
             IF op = "open_camera"
             THEN (IF camera_managers[c].open THEN <<>>
                   ELSE open_camera_body(c, IF stream_only THEN "stream_only"
                                            ELSE camera_config[c]))
             ELSE IF ~camera_managers[c].open THEN <<>>
             ELSE IF op = "close_camera" THEN close_camera_body(c)
             ELSE IF op = "get_metrics" THEN get_metrics_body(c)
             ELSE get_latest_frame_body(c))

\* ------------------------------------------------------------------ StreamTap
TapThreads == {"t1", "t2", "t3"}
TapOps == {"push_frame", "get_frame", "get_jpeg"}

\* self._frame is None
NoFrame == [image |-> 0, timestamp |-> 0, jpeg_bytes |-> FALSE]

\* StreamTap.__init__ (lock: the thread inside "with self._lock", "" for none;
\* started / completed count the push_frame calls begun and returned)
NewStreamTap ==
  [frame |-> NoFrame, frame_count |-> 0, lock |-> "", started |-> 0,
   completed |-> 0]

\* a thread outside every StreamTap call (image: the frame its push_frame
\* call was given, seen: the pushes that had returned when its call began,
\* count: the self._frame_count it read, ret: what its get_frame returned)
IdleTapThread ==
  [pc |-> "idle", op |-> "", image |-> 0, seen |-> 0, count |-> 0,
   ret |-> NoFrame, returned |-> FALSE, failed |-> FALSE]

\* A faulty "with self._lock" that never waits
lock_ignored(tp) == TRUE

\* "with self._lock": the lock can be taken
lock_free(tp) == tp.lock = ""

\* the next step of thread t inside its StreamTap call: entering the "with"
\* block, the statements of push_frame / get_frame / get_jpeg in it, leaving
\* the block and returning (now: time.time(), as the number of the push that
\* reads it)
stream_tap_step(t) ==
  LET th == tap_threads[t]
      now == th.image
  IN /\ th.pc # "idle"
     /\ th.pc = "enter" => lock_free(stream_tap)
     /\ stream_tap' =
          CASE th.pc = "enter" -> [stream_tap EXCEPT !.lock = t]
            [] th.pc = "store" ->
                 [stream_tap EXCEPT !.frame = [image |-> th.image, timestamp |-> now,
                                               jpeg_bytes |-> FALSE]]
            [] th.pc = "count_write" -> [stream_tap EXCEPT !.frame_count = th.count + 1]
            [] th.pc = "encode" /\ stream_tap.frame # NoFrame ->
                 [stream_tap EXCEPT !.frame.jpeg_bytes = TRUE]
            [] th.pc = "exit" ->
                 [stream_tap EXCEPT !.lock = "",
                             !.completed = IF th.op = "push_frame" THEN @ + 1 ELSE @]
            [] OTHER -> stream_tap
     /\ tap_threads' = [tap_threads EXCEPT ![t] =
          CASE th.pc = "enter" ->
                 [th EXCEPT !.pc = IF th.op = "push_frame" THEN "store"
                                   ELSE IF th.op = "get_frame" THEN "read"
                                   ELSE "check"]
            [] th.pc = "store" -> [th EXCEPT !.pc = "count_read"]
            [] th.pc = "count_read" ->
                 [th EXCEPT !.pc = "count_write", !.count = stream_tap.frame_count]
            [] th.pc = "count_write" -> [th EXCEPT !.pc = "exit"]
            [] th.pc = "read" -> [th EXCEPT !.pc = "exit", !.ret = stream_tap.frame]
            [] th.pc = "check" ->
                 [th EXCEPT !.pc = IF stream_tap.frame = NoFrame THEN "exit" ELSE "encode"]
            [] th.pc = "encode" ->
                 [th EXCEPT !.pc = "exit", !.failed = (stream_tap.frame = NoFrame)]
            [] OTHER -> [th EXCEPT !.pc = "idle", !.returned = TRUE]]
     /\ UNCHANGED <<camera_config, svcVars, frame_no, vpmVars, lastCall, graph,
                    validation, plan, built, orderVars, frameVars, lockVars,
                 feedVars>>

\* thread t calls op on the tap; a push carries the image numbered by the
\* call
stream_tap_call(t, op) ==
  /\ tap_threads[t].pc = "idle"
  /\ op = "push_frame" => stream_tap.started < MaxPushes
  /\ stream_tap' = [stream_tap EXCEPT !.started = IF op = "push_frame" THEN @ + 1 ELSE @]
  /\ tap_threads' = [tap_threads EXCEPT ![t] =
       [IdleTapThread EXCEPT !.pc = "enter", !.op = op, !.seen = stream_tap.completed,
                             !.image = IF op = "push_frame"
                                       THEN stream_tap.started + 1 ELSE 0]]
  /\ UNCHANGED <<camera_config, svcVars, frame_no, vpmVars, lastCall, graph,
                 validation, plan, built, orderVars, frameVars, lockVars,
                 feedVars>>

\* no StreamTap is exercised on its own, no plan has been built and no frame
\* history has been written
BenchObjectsIdle ==
  /\ stream_tap = NewStreamTap
  /\ tap_threads = [t \in TapThreads |-> IdleTapThread]
  /\ built = NoBuild
  /\ put_frames = <<>>
  /\ fed_frames = <<>>
  /\ popped = [i \in 1..MaxLoopThreads |-> 0]
  /\ lock_holder = [l \in Locks |-> ""]
  /\ todo = [t \in LockThreads |-> <<>>]
  /\ loop_state = [t \in LoopThreads |-> "none"]
  /\ tap_frames = NoTapFrames

BenchIdle ==
  /\ BenchObjectsIdle
  /\ frame_pipeline = NewVisionPipeline(<<>>)
  /\ frame_result = NoResult

\* ------------------------------------------------------------ specifications
\* CameraService.__init__ and VisionPipelineManager.__init__
IdleService ==
  /\ camera_config = [c \in Cameras |-> IF c = "c1" THEN "apriltag" ELSE "stream_only"]
  /\ camera_managers = [c \in Cameras |-> NoManager]
  /\ camera_manager_running = FALSE
  /\ cm_threads = 0
  /\ vision_pipeline_running = FALSE
  /\ vp_threads = 0
  /\ frame_no = 0
  /\ pipelines = [p \in PipelineIds |-> NoPipelineObj]
  /\ instances = [i \in InstIds |-> NoInstance]
  /\ save_sinks = [i \in InstIds |-> NoPipeline]
  /\ file_threads = [i \in FileInsts |-> NoThread]
  /\ threads = [t \in PipelineIds |-> NoFileThread]
  /\ taps = [i \in InstIds |-> NoTaps]
  /\ lastCall = NoCall

\* no graph has been handed to the compiler
GraphIdle ==
  /\ graph = EmptyGraph
  /\ validation = NotValidated
  /\ plan = NotCompiled

Init == IdleService /\ GraphIdle /\ BenchIdle

\* Graphs with a camera source and no camera_id of their own, built without
\* a save sink
CameraAlgos == { Algo("graph", "valid", NoSource, "tap1", "none") }

StartOnCamera ==
  \E target \in Cameras, algo \in CameraAlgos : start(target, algo, TRUE)

StopOnCamera == \E instance_id \in Cameras : stop(instance_id, TRUE)

\* --- Spec: frames flowing through open cameras (devices open, joins succeed)
OpenCameraLive ==
  \E c \in Cameras, stream_only \in BOOLEAN : open_camera(c, stream_only, TRUE)

CloseCameraLive == \E c \in Cameras : close_camera(c, TRUE, TRUE)

Next ==
  \/ OpenCameraLive
  \/ CloseCameraLive
  \/ CaptureStep
  \/ ConsumerStep
  \/ StartOnCamera
  \/ StopOnCamera

Spec == Init /\ [][Next]_vars

\* The two loop threads are scheduled: a loop iteration that can run, runs
FairSpec == Spec /\ WF_vars(CaptureStep) /\ WF_vars(ConsumerStep)

\* --- LifecycleSpec: the loop threads over open / close / start / stop calls,
\* with every outcome of opening the device and of the bounded joins
OpenCamera ==
  \E c \in Cameras, stream_only \in BOOLEAN, opened \in BOOLEAN :
    open_camera(c, stream_only, opened)

CloseCamera ==
  \E c \in Cameras, cm_joined \in BOOLEAN, vp_joined \in BOOLEAN :
    close_camera(c, cm_joined, vp_joined)

NextLifecycle ==
  \/ OpenCamera
  \/ CloseCamera
  \/ CaptureLoopExit
  \/ ConsumerLoopExit
  \/ StartOnCamera
  \/ StopOnCamera

LifecycleSpec == Init /\ [][NextLifecycle]_vars

\* Both loops test their running flag at the top of every iteration, and an
\* iteration is bounded (one capture per camera, sleeps of at most 0.1 s): a
\* loop that can see its flag cleared does see it
FairLifecycleSpec ==
  LifecycleSpec /\ WF_vars(CaptureLoopExit) /\ WF_vars(ConsumerLoopExit)

\* --- VpmSpec: every kind of start and stop call; camera c1 is opened and
\* closed, camera c2 stays closed; no frame is captured
OpenCameraVpm == open_camera("c1", FALSE, TRUE)

CloseCameraVpm == close_camera("c1", TRUE, TRUE)

Start ==
  \E target \in Targets, algo \in Algos :
    \E discoverable \in (IF StartCause(target, algo, FALSE) = "camera not discoverable"
                         THEN BOOLEAN ELSE {TRUE}) :
      start(target, algo, discoverable)

Stop == \E instance_id \in InstIds : stop(instance_id, TRUE)

NextVpm ==
  \/ OpenCameraVpm
  \/ CloseCameraVpm
  \/ Start
  \/ Stop

VpmSpec == Init /\ [][NextVpm]_vars

\* --- FileSpec: the file-reading threads over start / stop calls on files
FileAlgos ==
  { a \in Algos : /\ a.given = "graph" /\ a.structure = "valid"
                  /\ a.source.kind \in {"video_file", "image_file"}
                  /\ a.source.path \in ExistingFiles }

StartFile == \E algo \in FileAlgos : start("file", algo, TRUE)

StopFile == \E instance_id \in FileInsts, joined \in BOOLEAN : stop(instance_id, joined)

FileLoopOpen ==
  \E t \in PipelineIds, readable \in BOOLEAN : file_loop_open(t, readable)

FileLoopCheck == \E t \in PipelineIds : file_loop_check(t)

FileLoopStep ==
  \E t \in PipelineIds, outcome \in Outcomes : file_loop_step(t, outcome)

FileLoopExit == \E t \in PipelineIds : file_loop_exit(t)

NextFile ==
  \/ StartFile
  \/ StopFile
  \/ FileLoopOpen
  \/ FileLoopCheck
  \/ FileLoopStep
  \/ FileLoopExit

FileSpec == Init /\ [][NextFile]_vars

\* Each file thread is scheduled: it opens its file, ends the iteration it
\* is in, and leaves the loop when the loop condition lets it
FairFileSpec ==
  /\ FileSpec
  /\ \A t \in PipelineIds :
       /\ WF_vars(\E readable \in BOOLEAN : file_loop_open(t, readable))
       /\ WF_vars(\E outcome \in Outcomes : file_loop_step(t, outcome))
       /\ WF_vars(file_loop_exit(t))

\* ----------------------------------------------------------------- QueueSpec
\* One CameraManager object and the two callers that append to its processed
\* queue: the capture loop and process_vision_pipeline.  The manager is
\* constructed with any use_case and with or without a pipeline
\* (CameraManager.__init__ takes both); process_vision_pipeline is called on
\* it directly, as the consumer loop does once it has picked the manager.
QueueCamera == "c1"

ManagerUseCases == {"stream_only", "apriltag", "vision_pipeline"}

QueueInit ==
  /\ camera_config = [c \in Cameras |-> IF c = "c1" THEN "apriltag" ELSE "stream_only"]
  /\ \E use_case \in ManagerUseCases, p \in {NoPipeline, 1} :
       camera_managers = [c \in Cameras |->
         IF c = QueueCamera
         THEN [NewManager(use_case) EXCEPT !.vision_pipeline = p]
         ELSE NoManager]
  /\ camera_manager_running = TRUE
  /\ cm_threads = 1
  /\ vision_pipeline_running = FALSE
  /\ vp_threads = 0
  /\ frame_no = 0
  /\ pipelines = [p \in PipelineIds |-> NoPipelineObj]
  /\ instances = [i \in InstIds |-> NoInstance]
  /\ save_sinks = [i \in InstIds |-> NoPipeline]
  /\ file_threads = [i \in FileInsts |-> NoThread]
  /\ threads = [t \in PipelineIds |-> NoFileThread]
  /\ taps = [i \in InstIds |-> NoTaps]
  /\ lastCall = NoCall
  /\ GraphIdle
  /\ BenchIdle

\* one iteration of _camera_manager_loop on the manager
QueueCapture ==
  \E captured \in BOOLEAN :
    /\ frame_no < MaxQueueFrames
    /\ frame_no' = frame_no + 1
    /\ camera_managers' = [camera_managers EXCEPT ![QueueCamera] =
                             capture_frame(@, frame_no + 1, captured)]
    /\ lastCall' = NoCall
    /\ UNCHANGED <<staticVars, camera_manager_running, cm_threads,
                   vision_pipeline_running, vp_threads, vpmVars>>

\* one call of CameraManager.process_vision_pipeline that finds a frame
QueueProcess ==
  \E outcome \in Outcomes :
    /\ pvp_runs(camera_managers[QueueCamera])
    /\ camera_managers' = [camera_managers EXCEPT ![QueueCamera] =
                             process_vision_pipeline(@, outcome)]
    /\ lastCall' = NoCall
    /\ UNCHANGED <<staticVars, camera_manager_running, cm_threads,
                   vision_pipeline_running, vp_threads, frame_no, vpmVars>>

NextQueue ==
  \/ QueueCapture
  \/ QueueProcess

QueueSpec == QueueInit /\ [][NextQueue]_vars

\* ----------------------------------------------------------------- FrameSpec
\* One VisionPipeline built from any list of the stages the builder knows,
\* and process_frame called on it
StageLists == UNION {[1..len -> StageNames] : len \in 0..MaxStages}

FrameInit ==
  /\ IdleService
  /\ GraphIdle
  /\ BenchObjectsIdle
  /\ frame_pipeline \in {NewVisionPipeline(stages) : stages \in StageLists}
  /\ frame_result = NoResult

\* one process_frame call
ProcessFrame ==
  \E fails \in SUBSET {i \in DOMAIN frame_pipeline.stages :
                         frame_pipeline.stages[i] = "preprocess"},
     n \in 0..1, raised \in BOOLEAN :
    LET k == frame_result.call + 1
        r == process_frame_call(frame_pipeline, k, fails, n, raised)
    IN /\ frame_result.call < MaxCalls
       /\ frame_pipeline' = r.vp
       /\ frame_result' = r.out
       /\ UNCHANGED <<camera_config, svcVars, frame_no, vpmVars, lastCall,
                      graph, validation, plan, benchVars, orderVars, lockVars,
                      feedVars>>

NextFrame == ProcessFrame

FrameSpec == FrameInit /\ [][NextFrame]_vars

\* ------------------------------------------------------------------ LockSpec
\* The capture loop, the consumer loop and the event loop, statement by
\* statement wherever a lock is taken or released, the camera map is read or
\* written, a running flag is read or written or a thread is joined.  Frames
\* are not followed: a full queue, a failed capture and a failed pipeline run
\* are choices.  One thread is followed per loop: open_camera is taken up
\* only when no loop thread that was told to stop is still in its loop.
ApiCall ==
  \E op \in ApiOps, c \in Cameras, stream_only \in BOOLEAN :
    api_call(op, c, stream_only)

ApiStart == todo["api"] = <<>> /\ StartOnCamera

LockAcquire == \E t \in LockThreads : lock_acquire(t)

LockRelease == \E t \in LockThreads : lock_release(t)

LoopTop == \E t \in LoopThreads : loop_top(t)

NextLock ==
  \/ ApiCall
  \/ ApiStart
  \/ LockAcquire
  \/ LockRelease
  \/ map_insert
  \/ map_delete
  \/ ensure_camera_manager_thread
  \/ ensure_vision_pipeline_thread
  \/ stop_camera_manager_thread
  \/ stop_vision_pipeline_thread
  \/ join_returns
  \/ LoopTop
  \/ capture_snapshot
  \/ capture_visit
  \/ consumer_recheck
  \/ consumer_break
  \/ consumer_iterate
  \/ consumer_visit

LockSpec == Init /\ [][NextLock]_vars

\* ----------------------------------------------------------------- StatsSpec
\* Camera c1 with a pipeline attached while its use_case is still 'apriltag':
\* the state start leaves between its two assignments
\* (manager.vision_pipeline = ..., manager.use_case = ...) on a camera whose
\* stored use_case is 'apriltag', and the only one in which
\* process_vision_pipeline passes its guard.  From there frames are captured,
\* process_vision_pipeline is called on the manager, and pipelines are
\* started and stopped on the camera.
PipelineAttached(consumers) ==
  /\ camera_config = [c \in Cameras |-> IF c = "c1" THEN "apriltag" ELSE "stream_only"]
  /\ camera_managers = [c \in Cameras |->
       IF c = QueueCamera
       THEN [attach(NewManager("apriltag"), 1) EXCEPT !.use_case = "apriltag"]
       ELSE NoManager]
  /\ camera_manager_running = TRUE
  /\ cm_threads = 1
  /\ vision_pipeline_running = TRUE
  /\ vp_threads = consumers
  /\ frame_no = 0
  /\ pipelines = [p \in PipelineIds |->
       IF p = 1 THEN NewPipeline(QueueCamera, "none") ELSE NoPipelineObj]
  /\ instances = [i \in InstIds |-> NoInstance]
  /\ save_sinks = [i \in InstIds |-> NoPipeline]
  /\ file_threads = [i \in FileInsts |-> NoThread]
  /\ threads = [t \in PipelineIds |-> NoFileThread]
  /\ taps = [i \in InstIds |-> NoTaps]
  /\ lastCall = NoCall
  /\ GraphIdle
  /\ BenchIdle

StatsInit == PipelineAttached(1)

\* one call of CameraManager.process_vision_pipeline on the manager of c,
\* with the VisionPipeline.process_frame call it makes
StatsProcess ==
  \E c \in Cameras, outcome \in Outcomes :
    LET m == camera_managers[c]
    IN /\ m.open /\ pvp_runs(m)
       /\ pipelines[m.vision_pipeline].frames_processed < MaxProcessed
       /\ camera_managers' = [camera_managers EXCEPT ![c] =
                                process_vision_pipeline(m, outcome)]
       /\ pipelines' = [pipelines EXCEPT ![m.vision_pipeline] =
                          process_frame(@, outcome)]
       /\ lastCall' = NoCall
       /\ UNCHANGED <<staticVars, camera_manager_running, cm_threads,
                      vision_pipeline_running, vp_threads, frame_no, instances,
                      save_sinks, file_threads, threads, taps>>

NextStats ==
  \/ CaptureStep
  \/ StatsProcess
  \/ StartOnCamera
  \/ StopOnCamera

StatsSpec == StatsInit /\ [][NextStats]_vars

\* ----------------------------------------------------------------- OrderSpec
\* The manager of StatsSpec fed by the capture loop and drained by the
\* consumer threads, each call of process_vision_pipeline in two steps (the
\* pop under raw_frame_queue_lock, then process_frame and the rest), with the
\* frames put into the raw queue and the frames handed to the pipeline
\* written down in order.  A second consumer thread is alive when a bounded
\* join of _stop_vision_pipeline_thread timed out before the thread was
\* started again.
OrderInit == \E consumers \in 1..MaxLoopThreads : PipelineAttached(consumers)

\* one iteration of _camera_manager_loop on the manager (captured FALSE:
\* capture_frame_raw returned None or raised; both branches count one drop)
OrderCapture ==
  \E captured \in BOOLEAN :
    /\ frame_no < MaxOrderFrames
    /\ frame_no' = frame_no + 1
    /\ camera_managers' = [camera_managers EXCEPT ![QueueCamera] =
                             capture_frame(@, frame_no + 1, captured)]
    /\ put_frames' = IF captured THEN Append(put_frames, frame_no + 1)
                     ELSE put_frames
    /\ lastCall' = Call("capture_frame_raw", QueueCamera, "",
                        IF captured THEN "frame" ELSE "none")
    /\ UNCHANGED <<camera_config, graph, validation, plan, benchVars, frameVars,
                   lockVars, feedVars,
                   camera_manager_running, cm_threads,
                   vision_pipeline_running, vp_threads, vpmVars, fed_frames,
                   popped>>

\* CameraManager.process_vision_pipeline in consumer thread i: the guard and
\* the popleft
OrderPop ==
  \E i \in 1..vp_threads :
    /\ popped[i] = 0
    /\ pvp_runs(camera_managers[QueueCamera])
    /\ popped' = [popped EXCEPT ![i] =
                    Head(camera_managers[QueueCamera].raw_frame_queue)]
    /\ camera_managers' = [camera_managers EXCEPT ![QueueCamera] =
                             pop_raw_frame(@)]
    /\ lastCall' = NoCall
    /\ UNCHANGED <<camera_config, graph, validation, plan, benchVars, frameVars,
                   lockVars, feedVars,
                   camera_manager_running, cm_threads,
                   vision_pipeline_running, vp_threads, frame_no, vpmVars,
                   put_frames, fed_frames>>

\* CameraManager.process_vision_pipeline in consumer thread i: the
\* process_frame call on the popped frame and the append to frame_queue
OrderProcess ==
  \E i \in 1..vp_threads, outcome \in Outcomes :
    /\ popped[i] # 0
    /\ fed_frames' = Append(fed_frames, popped[i])
    /\ camera_managers' = [camera_managers EXCEPT ![QueueCamera] =
                             store_pipeline_result(@, popped[i], outcome)]
    /\ popped' = [popped EXCEPT ![i] = 0]
    /\ lastCall' = Call("process_frame", QueueCamera, "", outcome)
    /\ UNCHANGED <<camera_config, graph, validation, plan, benchVars, frameVars,
                   lockVars, feedVars,
                   camera_manager_running, cm_threads,
                   vision_pipeline_running, vp_threads, frame_no, vpmVars,
                   put_frames>>

NextOrder ==
  \/ OrderCapture
  \/ OrderPop
  \/ OrderProcess

OrderSpec == OrderInit /\ [][NextOrder]_vars

\* web_server vp_compile: the response made of what compile_graph did
vp_compile(p) ==
  [valid |-> ~p.raised, errors |-> p.errors, has_plan |-> ~p.raised]

\* -------------------------------------------------------------- ValidateSpec
\* validate_graph applied to every graph of ValidationGraphs, with every
\* iteration order of the node id set
ValidateInit ==
  /\ IdleService
  /\ graph \in ValidationGraphs
  /\ validation = NotValidated
  /\ plan = NotCompiled
  /\ BenchIdle

Validate ==
  /\ ~validation.done
  /\ \E order \in Orders(node_ids(graph)) :
       validation' = validate_graph(graph, order)
  /\ UNCHANGED <<camera_config, svcVars, frame_no, vpmVars, lastCall, graph, plan,
                 benchVars, orderVars, frameVars, lockVars, feedVars>>

NextValidate == Validate

ValidateSpec == ValidateInit /\ [][NextValidate]_vars

\* --------------------------------------------------------------- CompileSpec
\* compile_graph applied to every graph of CompileGraphs, with every
\* iteration order of the two sets it iterates
CompileInit ==
  /\ IdleService
  /\ graph \in CompileGraphs
  /\ validation = NotValidated
  /\ plan = NotCompiled
  /\ BenchIdle

Compile ==
  /\ ~plan.done
  /\ \E order \in Orders(node_ids(graph)), ap_order \in Orders(attach_points(graph)) :
       plan' = compile_graph(graph, order, ap_order)
  /\ UNCHANGED <<camera_config, svcVars, frame_no, vpmVars, lastCall, graph,
                 validation, benchVars, orderVars, frameVars, lockVars, feedVars>>

NextCompile == Compile

CompileSpec == CompileInit /\ [][NextCompile]_vars

\* ----------------------------------------------------------------- BuildSpec
\* compile_graph followed by build_pipeline_with_taps on the plan, as start
\* and the tests of the builder call them
Build ==
  /\ plan.done /\ ~plan.raised
  /\ ~built.done
  /\ \E stage_ids \in StageIdsOf(graph) :
       built' = [build_pipeline_with_taps(plan, graph.nodes, stage_ids)
                   EXCEPT !.stage_ids = stage_ids]
  /\ UNCHANGED <<camera_config, svcVars, frame_no, vpmVars, lastCall, graph,
                 validation, plan, stream_tap, tap_threads, orderVars, frameVars,
                 lockVars, feedVars>>

\* one frame runs through the built pipeline
Feed ==
  /\ built.done /\ built.ok
  /\ ~tap_frames.fed
  /\ tap_frames' = [fed |-> TRUE,
                    pushes |-> dispatch_taps(built.stages, built.side_taps_by_stage)]
  /\ UNCHANGED <<camera_config, svcVars, frame_no, vpmVars, lastCall, graph,
                 validation, plan, benchVars, orderVars, frameVars, lockVars>>

NextBuild == Compile \/ Build \/ Feed

BuildSpec == CompileInit /\ [][NextBuild]_vars

\* ------------------------------------------------------------------- TapSpec
\* test_stream_tap_thread_safety: threads calling one StreamTap at will
TapCall == \E t \in TapThreads, op \in TapOps : stream_tap_call(t, op)

TapStep == \E t \in TapThreads : stream_tap_step(t)

NextTap == TapCall \/ TapStep

TapSpec == Init /\ [][NextTap]_vars

\* ---------------------------------------------------------------- properties
\* C1: a camera's raw slot never holds more than one frame (two enqueues with
\* no pop in between leave only the second frame in it).
C1_RawSlotHoldsOneFrame ==
  \A c \in Cameras : Len(camera_managers[c].raw_frame_queue) <= 1

Attached(c) ==
  camera_managers[c].open /\ camera_managers[c].vision_pipeline # NoPipeline

Fed(c) ==
  Attached(c) /\ Len(camera_managers[c].raw_frame_queue) > 0 /\ lastCall = NoCall

Ran(c) ==
  Attached(c) /\ pipelines[camera_managers[c].vision_pipeline].frames_processed > 0

\* C2: once a pipeline is attached to an open camera and a captured frame sits
\* in the camera's raw queue, the consumer thread eventually runs the pipeline
\* on a frame (frames_processed increases), unless a further API call is made.
C2_ConsumerRunsAttachedPipeline ==
  \A c \in Cameras : Fed(c) ~> (Ran(c) \/ lastCall # NoCall)

\* C3: after any sequence of open_camera, close_camera, start and stop calls
\* the consumer thread is running exactly when at least one camera is open.
C3_ConsumerRunsIffCameraOpen ==
  vision_pipeline_running <=> OpenCameras # {}

\* C4: the capture thread's running flag is set exactly when a camera is open;
\* the open that takes the count from 0 to 1 starts the thread, an open while
\* a camera is open starts none, and only the close that takes the count to 0
\* clears the flag.
C4_CaptureThreadLifecycle ==
  /\ [](camera_manager_running <=> OpenCameras # {})
  /\ [][ /\ (lastCall'.op = "open_camera" /\ lastCall'.cause = "opened" /\ OpenCameras = {})
              => (camera_manager_running' /\ cm_threads' = cm_threads + 1)
         /\ (lastCall'.op = "open_camera" /\ OpenCameras # {})
              => (cm_threads' = cm_threads
                  /\ camera_manager_running' = camera_manager_running)
         /\ (camera_manager_running /\ ~camera_manager_running')
              => (lastCall'.op = "close_camera" /\ OpenCameras' = {})
         /\ (lastCall'.op = "close_camera" /\ OpenCameras' # {})
              => camera_manager_running' = camera_manager_running ]_vars

\* C4 witness: a second camera has just been opened while the first is open,
\* and one capture thread runs.
C4_SecondCameraOpened ==
  /\ lastCall.op = "open_camera" /\ lastCall.cause = "opened"
  /\ Cardinality(OpenCameras) = 2
  /\ camera_manager_running /\ cm_threads = 1

\* C5: once stop(instance_id) has returned, the registry holds no tap under
\* instance_id and every save sink a start created for instance_id has had
\* close() called.
C5_StopReleasesTapsAndSinks ==
  lastCall.op = "stop" =>
    /\ taps[lastCall.id] = NoTaps
    /\ \A p \in PipelineIds :
         (pipelines[p].built /\ pipelines[p].inst = lastCall.id
            /\ pipelines[p].sink # "none") => pipelines[p].close_called

\* C6: after stop(instance_id) of a file-backed instance, every file-reading
\* thread started for instance_id eventually leaves its loop.
C6_FileThreadsLeaveLoop ==
  \A t \in PipelineIds :
    threads[t].stop_returned ~> (threads[t].state \in {"none", "exited"})

\* C7: start and stop never open or close a camera: the open cameras and the
\* capture thread are the same before and after the call, whether it succeeds
\* or fails.
C7_StartStopLeaveCamerasAlone ==
  [][lastCall'.op \in {"start", "stop"} =>
       /\ OpenCameras' = OpenCameras
       /\ camera_manager_running' = camera_manager_running
       /\ cm_threads' = cm_threads]_vars

\* C7 witness: stop has just detached a pipeline from a camera that is open.
C7_StoppedOnOpenCamera ==
  /\ lastCall.op = "stop" /\ lastCall.id \in OpenCameras
  /\ instances[lastCall.id].state = "stopped"

\* C8: stop on a camera with a pipeline attached leaves no pipeline attached
\* and the use_case the camera had immediately before the pipeline was
\* attached.
C8_StopRestoresUseCase ==
  [][\A c \in Cameras :
       (lastCall'.op = "stop" /\ lastCall'.id = c /\ Attached(c))
         => /\ camera_managers'[c].vision_pipeline = NoPipeline
            /\ camera_managers'[c].use_case = camera_managers[c].pre_use_case]_vars

\* C9: a failed start returns no instance id and an error, and changes no
\* instance, tap, save sink, file thread, pipeline or camera manager.
C9_FailedStartChangesNothing ==
  [][(lastCall'.op = "start" /\ lastCall'.id = "") =>
       /\ lastCall'.err # ""
       /\ UNCHANGED <<camera_managers, instances, taps, save_sinks,
                      file_threads, threads, pipelines>>]_vars

\* C9 witness: a start has just failed on a closed camera while an instance
\* is running.
C9_FailedWhileRunning ==
  /\ lastCall.op = "start" /\ lastCall.id = "" /\ lastCall.cause = "camera not open"
  /\ \E i \in InstIds : instances[i].state = "running"

NamedCauses ==
  {"camera not open", "no path configured", "file not found", "graph invalid",
   "target is file but no file source"}

ErrorsOf(cause) ==
  CASE cause = "camera not open" -> {E_CameraNotOpen}
    [] cause = "no path configured" -> {E_VideoNoPath, E_ImageNoPath}
    [] cause = "file not found" -> {E_VideoNotFound, E_ImageNotFound}
    [] cause = "graph invalid" -> {E_InvalidGraph}
    [] cause = "target is file but no file source" -> {E_FileNoSource}
    [] OTHER -> {}

\* C10: each named failure cause of start is reported with an error of its
\* own, and the camera-not-open error is returned for no other cause (so never
\* for a file source without a path, whatever the target).
C10_CausesHaveDistinctErrors ==
  /\ \A a, b \in NamedCauses : a # b => ErrorsOf(a) \cap ErrorsOf(b) = {}
  /\ (lastCall.op = "start" /\ lastCall.cause \in NamedCauses)
       => lastCall.err \in ErrorsOf(lastCall.cause)
  /\ (lastCall.op = "start" /\ lastCall.err = E_CameraNotOpen)
       => lastCall.cause = "camera not open"

\* C10 witness: a start of a file source without a path has just failed while
\* no camera is open.
C10_NoPathWhileCamerasClosed ==
  /\ lastCall.op = "start" /\ lastCall.cause = "no path configured"
  /\ lastCall.err = E_VideoNoPath
  /\ OpenCameras = {}

\* C11: a camera's processed queue never holds more than 10 frames; an append
\* to a full queue drops the oldest entry, keeps the others in arrival order
\* and puts the new frame last, whether the frame comes straight from the
\* capture loop or from process_vision_pipeline.
AppendedDropOldest(q, q2, f) ==
  IF Len(q) >= 10
  THEN /\ Len(q2) = 10
       /\ \A i \in 1..9 : q2[i] = q[i + 1]
       /\ q2[10] = f
  ELSE /\ Len(q2) = Len(q) + 1
       /\ \A i \in 1..Len(q) : q2[i] = q[i]
       /\ q2[Len(q2)] = f

C11_FrameQueueDropsOldest ==
  /\ [](\A c \in Cameras : Len(camera_managers[c].frame_queue) <= 10)
  /\ [][\A c \in Cameras :
         LET m == camera_managers[c]
             m2 == camera_managers'[c]
             streams == m.vision_pipeline = NoPipeline
                        \/ m.use_case \notin {"apriltag", "vision_pipeline"}
         IN /\ (streams /\ m2.frames_captured = m.frames_captured + 1)
                 => AppendedDropOldest(m.frame_queue, m2.frame_queue, frame_no')
            /\ (~streams /\ m2.frame_queue # m.frame_queue)
                 => AppendedDropOldest(m.frame_queue, m2.frame_queue,
                                       Head(m.raw_frame_queue))
            /\ (~streams /\ frame_no' # frame_no)
                 => m2.frame_queue = m.frame_queue]_vars

\* all of the first eleven frames went through the pipeline path into a queue
\* of ten
C11_EleventhFrameThroughPipeline ==
  LET m == camera_managers[QueueCamera]
  IN /\ m.vision_pipeline # NoPipeline
     /\ frame_no = 11
     /\ m.frames_captured = 11
     /\ m.raw_frame_queue = <<>>
     /\ m.frame_queue = <<2, 3, 4, 5, 6, 7, 8, 9, 10, 11>>

\* ------------------------------------------------ what a graph is, by its edges
\* the pairs (a, b) of nodes of g joined by an edge a -> b
EdgePairs(g) ==
  {<<g.edges[i].source_node, g.edges[i].target_node>> : i \in DOMAIN g.edges}
    \cap (node_ids(g) \X node_ids(g))

RECURSIVE Closure(_, _)
Closure(g, S) ==
  LET T == S \cup {pr[2] : pr \in {x \in EdgePairs(g) : x[1] \in S}}
  IN IF T = S THEN S ELSE Closure(g, T)

\* the nodes a path of one or more edges leads to from n
After(g, n) == Closure(g, {pr[2] : pr \in {x \in EdgePairs(g) : x[1] = n}})

OnCycle(g, n) == n \in After(g, n)

HasCycle(g) == \E n \in node_ids(g) : OnCycle(g, n)

SourceIds(g) == {g.nodes[i].id : i \in {j \in DOMAIN g.nodes : g.nodes[j].type = "source"}}

\* the nodes no path from a source leads to
Unreached(g) == node_ids(g) \ Closure(g, SourceIds(g))

\* the number of edges into port p of n
Inputs(g, n, p) ==
  Cardinality({i \in DOMAIN g.edges :
                 g.edges[i].target_node = n /\ g.edges[i].target_port = p})

ErrorsOfKind(kind) ==
  {i \in DOMAIN validation.errors : validation.errors[i].kind = kind}

\* C12: a graph with a directed cycle fails validation with an error naming a
\* node that lies on a cycle, and no validation reports more than one cycle.
C12_CycleReportedOnce ==
  validation.done =>
    /\ HasCycle(graph) =>
         /\ validation.raised
         /\ \E i \in ErrorsOfKind("cycle") :
              OnCycle(graph, validation.errors[i].node)
    /\ Cardinality(ErrorsOfKind("cycle")) <= 1

\* two cycles in the graph, one of them reported
C12_TwoCyclesOneReported ==
  /\ validation.done
  /\ Cardinality({n \in node_ids(graph) : <<n, n>> \in EdgePairs(graph)}) = 2
  /\ Cardinality(ErrorsOfKind("cycle")) = 1

\* C13: an acyclic graph with exactly one source, every node reachable from
\* it and no input port fed by more than one edge passes validate_graph:
\* nothing is raised and no error is reported.
WellFormed(g) ==
  /\ ~HasCycle(g)
  /\ Cardinality(SourceIds(g)) = 1
  /\ Unreached(g) = {}
  /\ \A i \in DOMAIN g.edges :
       Inputs(g, g.edges[i].target_node, g.edges[i].target_port) <= 1

C13_WellFormedGraphPasses ==
  (validation.done /\ WellFormed(graph)) =>
    (~validation.raised /\ validation.errors = <<>>)

\* a well-formed graph of three nodes, two of them fed through an edge
C13_ThreeNodeGraphPassed ==
  /\ validation.done
  /\ WellFormed(graph)
  /\ Len(graph.nodes) = 3

MultiInputErrors(n, p) ==
  {i \in ErrorsOfKind("multi_input") :
     validation.errors[i].node = n /\ validation.errors[i].port = p}

C16_OneErrorPerOverfedPort ==
  validation.done =>
    \A n \in Endpoints, p \in Ports :
      IF Inputs(graph, n, p) > 1
      THEN /\ Cardinality(MultiInputErrors(n, p)) = 1
           /\ \A i \in MultiInputErrors(n, p) :
                validation.errors[i].count = Inputs(graph, n, p)
      ELSE MultiInputErrors(n, p) = {}

\* one port fed twice and reported once
C16_PortFedTwice ==
  /\ validation.done
  /\ \E n \in Endpoints, p \in Ports :
       /\ Inputs(graph, n, p) = 2
       /\ Cardinality(MultiInputErrors(n, p)) = 1
  /\ Len(validation.errors) = 1

\* C17 as stated: validate_graph never short-circuits: every rule the graph
\* breaks (cycle, source count, unreachable nodes, multi-input ports) is in
\* the errors list of the one GraphValidationError, whatever other rule fails.
C17_EveryBrokenRuleReported ==
  validation.done =>
    /\ HasCycle(graph) => ErrorsOfKind("cycle") # {}
    /\ Len(get_sources(graph)) # 1 =>
         ErrorsOfKind("no_source") \cup ErrorsOfKind("multiple_sources") # {}
    /\ (SourceIds(graph) # {} /\ Unreached(graph) # {}) =>
         \A n \in Unreached(graph) :
           \E i \in ErrorsOfKind("unreachable") : n \in validation.errors[i].nodes
    /\ \A n \in Endpoints, p \in Ports :
         Inputs(graph, n, p) > 1 => MultiInputErrors(n, p) # {}

\* C17 as amended: the three checks of validate_graph never short-circuit one
\* another: a cycle, a failure of the single-source check and every over-fed
\* port are reported together in the one errors list.  Inside the
\* single-source check a wrong number of sources is reported alone: the
\* unreachable nodes are reported only when the graph has exactly one source.
C17_ChecksReportedTogether ==
  validation.done =>
    /\ validation.raised <=> validation.errors # <<>>
    /\ HasCycle(graph) <=> ErrorsOfKind("cycle") # {}
    /\ Len(get_sources(graph)) # 1 <=>
         ErrorsOfKind("no_source") \cup ErrorsOfKind("multiple_sources") # {}
    /\ (Len(get_sources(graph)) = 1 /\ Unreached(graph) # {}) <=>
         ErrorsOfKind("unreachable") # {}
    /\ \A n \in Endpoints, p \in Ports :
         Inputs(graph, n, p) > 1 <=> MultiInputErrors(n, p) # {}

\* a cycle, two sources and an over-fed port in one graph, all three reported
C17_ThreeRulesBrokenAtOnce ==
  /\ validation.done
  /\ HasCycle(graph)
  /\ Len(get_sources(graph)) = 2
  /\ \E n \in Endpoints, p \in Ports : Inputs(graph, n, p) > 1
  /\ Len(validation.errors) = 3

\* the ids of the terminal (svt_output) sinks
TerminalIds(g) ==
  {g.nodes[i].id : i \in {j \in DOMAIN g.nodes :
                            /\ g.nodes[j].type = "sink"
                            /\ g.nodes[j].sink_type = "svt_output"}}

Compiled == plan.done /\ ~plan.raised

\* p visits nodes of g along edges of g without visiting any node twice
SimplePath(g, p) ==
  /\ Len(p) >= 1
  /\ \A i \in DOMAIN p : p[i] \in node_ids(g)
  /\ \A i \in 1..(Len(p) - 1) : <<p[i], p[i + 1]>> \in EdgePairs(g)
  /\ \A i, j \in DOMAIN p : i # j => p[i] # p[j]

\* C18: when a graph with a terminal sink compiles, main_path is a simple
\* path of the graph from the source to the terminal sink; the linear chain
\* source -> stageA -> stageB -> terminal compiles to exactly that chain, with
\* no side taps.
C18_MainPathIsSimplePath ==
  Compiled =>
    /\ TerminalIds(graph) # {} =>
         /\ SimplePath(graph, plan.main_path)
         /\ plan.main_path[1] \in SourceIds(graph)
         /\ plan.main_path[Len(plan.main_path)] \in TerminalIds(graph)
    /\ graph = LinearChain =>
         /\ plan.main_path = <<"n1", "n2", "n3", "n4">>
         /\ plan.side_taps = <<>>

\* a compiled graph in which the source has two edges, the first to a side
\* tap and only the second leading to the terminal sink
C18_PathFoundAfterDeadEnd ==
  /\ Compiled
  /\ TerminalIds(graph) # {}
  /\ Len(outgoing_edges(graph, plan.main_path[1])) = 2
  /\ outgoing_edges(graph, plan.main_path[1])[1].target_node # plan.main_path[2]
  /\ Len(plan.side_taps) = 1

\* the edges of g into a side-tap sink of g whose source node is on path
TapEdgesOn(g, path) ==
  {i \in DOMAIN g.edges :
     /\ \E j \in DOMAIN g.nodes :
          /\ g.nodes[j].id = g.edges[i].target_node
          /\ g.nodes[j].sink_type \in {"stream_tap", "save_video", "save_image"}
     /\ \E k \in DOMAIN path : path[k] = g.edges[i].source_node}

\* side tap t is the one edge e gives rise to
TapOfEdge(t, e) ==
  /\ t.node_id = e.target_node
  /\ t.attach_point = e.source_node
  /\ t.source_port = e.source_port
  /\ t.target_port = e.target_port

\* C19: the side taps of a compiled plan correspond one to one to the edges
\* that lead from a node of main_path into a side-tap sink, each with the
\* sink as node_id, the edge's source as attach_point and the edge's ports;
\* hence every attach_point lies on main_path.
C19_SideTapsAreMainPathTapEdges ==
  Compiled =>
    /\ \E f \in [DOMAIN plan.side_taps -> TapEdgesOn(graph, plan.main_path)] :
         /\ \A i, j \in DOMAIN plan.side_taps : i # j => f[i] # f[j]
         /\ \A e \in TapEdgesOn(graph, plan.main_path) :
              \E i \in DOMAIN plan.side_taps : f[i] = e
         /\ \A i \in DOMAIN plan.side_taps :
              TapOfEdge(plan.side_taps[i], graph.edges[f[i]])
    /\ \A i \in DOMAIN plan.side_taps :
         \E k \in DOMAIN plan.main_path :
           plan.main_path[k] = plan.side_taps[i].attach_point

\* a compiled plan with one side tap on the main path while a second side-tap
\* sink, fed by the first, gets no entry
C19_TapFedOffMainPathLeftOut ==
  /\ Compiled
  /\ Len(plan.side_taps) = 1
  /\ Cardinality(TapEdgesOn(graph, [i \in 1..Len(graph.nodes) |-> graph.nodes[i].id])) = 2

\* some side-tap sink of g is fed by a node that the source reaches (the
\* source itself included)
TapFedFromSource(g) ==
  TapEdgesOn(g, [i \in 1..Len(g.nodes) |-> g.nodes[i].id])
    \cap {i \in DOMAIN g.edges :
            g.edges[i].source_node \in Closure(g, SourceIds(g))} # {}

SourceToStreamTap ==
  Graph(<<Node("n1", "source", ""), Node("n2", "sink", "stream_tap")>>,
        <<Edge("n1", "out", "n2", "in")>>)

C21_NoPlanWithoutValidGraphAndOutput ==
  (/\ plan.done
   /\ \/ ~WellFormed(graph)
      \/ TerminalIds(graph) = {} /\ ~TapFedFromSource(graph))
    => /\ plan.raised
       /\ Len(plan.errors) >= 1
       /\ plan.main_path = <<>>
       /\ plan.side_taps = <<>>

\* compilation refused for a valid graph: the source feeds a stage and
\* nothing feeds a sink
C21_ValidGraphWithoutOutputRefused ==
  /\ plan.done
  /\ plan.raised
  /\ WellFormed(graph)
  /\ Len(graph.nodes) = 2
  /\ Len(plan.errors) = 1

\* C22: whatever the interleaving of push_frame, get_frame and get_jpeg calls
\* of several threads on one StreamTap, no call fails; a get_frame call
\* returns nothing only if no push had returned when it began, and otherwise
\* a frame whose image and timestamp come from one push_frame call; and
\* whenever no thread is inside the tap, frame_count is the number of pushes
\* that have returned.
C22_TapCallsAreAtomic ==
  /\ \A t \in TapThreads :
       /\ ~tap_threads[t].failed
       /\ (tap_threads[t].returned /\ tap_threads[t].op = "get_frame") =>
            IF tap_threads[t].ret = NoFrame
            THEN tap_threads[t].seen = 0
            ELSE /\ tap_threads[t].ret.image \in 1..stream_tap.started
                 /\ tap_threads[t].ret.timestamp = tap_threads[t].ret.image
  /\ stream_tap.lock = "" => stream_tap.frame_count = stream_tap.completed

\* two pushes have returned; one reader got nothing, another got the frame of
\* the first push and a third thread has encoded the frame of the second
C22_ReadersBetweenTwoPushes ==
  /\ stream_tap.completed = 2
  /\ stream_tap.frame_count = 2
  /\ stream_tap.frame.jpeg_bytes
  /\ \E t, u \in TapThreads :
       /\ tap_threads[t].returned /\ tap_threads[t].op = "get_frame"
       /\ tap_threads[t].ret = NoFrame
       /\ tap_threads[u].returned /\ tap_threads[u].op = "get_frame"
       /\ tap_threads[u].ret.image = 1

\* the StreamTap side taps of the compiled plan
PlanStreamTaps ==
  {i \in DOMAIN plan.side_taps : plan.side_taps[i].sink_type = "stream_tap"}

\* C23: a successful build returns at least one StreamTap: if the plan has no
\* StreamTap side tap, exactly one tap, with id "preview", attached to the
\* source node main_path[0] and registered for the raw source frame; if the
\* plan has a StreamTap side tap, no tap with id "preview".
C23_PreviewTapIffNoStreamTap ==
  (built.done /\ built.ok) =>
    /\ Len(built.stream_taps) >= 1
    /\ IF PlanStreamTaps = {}
       THEN /\ Len(built.stream_taps) = 1
            /\ built.stream_taps[1].id = "preview"
            /\ built.stream_taps[1].attach_point = plan.main_path[1]
            /\ built.stream_taps[1].attach_point \in SourceIds(graph)
            /\ built.stream_taps[1].attach_stage = "__source__"
       ELSE \A i \in DOMAIN built.stream_taps : built.stream_taps[i].id # "preview"

\* a pipeline built for a graph whose only side tap is a SaveVideo sink behind
\* a stage: it has the preview tap next to the save sink
C23_PreviewNextToSaveVideo ==
  /\ built.done /\ built.ok
  /\ Len(built.save_sinks) = 1
  /\ built.save_sinks[1].attach_stage = "preprocess"
  /\ Len(built.stream_taps) = 1
  /\ built.stream_taps[1].id = "preview"

\* C24: once the last camera is closed, unless a camera is opened again, every
\* capture thread and every consumer thread eventually leaves its loop,
\* whether or not the bounded joins of close_camera waited long enough.
C24_LoopsEndAfterLastClose ==
  (OpenCameras = {}) ~> (\/ cm_threads = 0 /\ vp_threads = 0
                         \/ OpenCameras # {})

\* the last camera has just been closed and both joins timed out: a capture
\* thread and a consumer thread are still in their loops
C24_BothJoinsTimedOut ==
  /\ lastCall.op = "close_camera" /\ lastCall.cause = "closed"
  /\ OpenCameras = {}
  /\ ~camera_manager_running /\ ~vision_pipeline_running
  /\ cm_threads = 1 /\ vp_threads = 1

\* the frames_processed that get_detection_stats reports for camera c in the
\* state of cms and pls: the counter of the attached pipeline
ReportedFrames(cms, pls, c) == pls[cms[c].vision_pipeline].frames_processed

RECURSIVE IsSubsequence(_, _)
IsSubsequence(a, b) ==
  IF a = <<>> THEN TRUE
  ELSE IF b = <<>> THEN FALSE
  ELSE IF Head(a) = Head(b) THEN IsSubsequence(Tail(a), Tail(b))
  ELSE IsSubsequence(a, Tail(b))

C28_CompileRejectsMissingSvtOutput ==
  (plan.done /\ find_svt_output(graph) = "")
    => /\ ~vp_compile(plan).valid
       /\ Len(vp_compile(plan).errors) >= 1
       /\ ~vp_compile(plan).has_plan

\* C29: an append to the processed queue of a camera adds one to
\* frames_dropped when the queue was full (the oldest frame is displaced) and
\* leaves frames_dropped alone otherwise, whether the capture loop appends
\* (camera without a pipeline) or process_vision_pipeline does.
C29_DropCountedPerDisplacedFrame ==
  [][LET m == camera_managers[QueueCamera]
         after == camera_managers'[QueueCamera]
     IN after.frame_queue # m.frame_queue
          => after.frames_dropped =
               m.frames_dropped
                 + (IF Len(m.frame_queue) >= FrameQueueMaxLen THEN 1 ELSE 0)]_vars

RECURSIVE LongestTo(_, _)
LongestTo(g, n) ==
  LET before == {pr[1] : pr \in {x \in EdgePairs(g) : x[2] = n}}
      lengths == {LongestTo(g, m) : m \in before}
  IN IF before = {} THEN 1
     ELSE 1 + CHOOSE l \in lengths : \A k \in lengths : k <= l

\* the nodes of g that the source reaches and that feed a side-tap sink
AttachPoints(g) ==
  {g.edges[i].source_node :
     i \in TapEdgesOn(g, [j \in 1..Len(g.nodes) |-> g.nodes[j].id])}
    \cap Closure(g, SourceIds(g))

\* C31: for a valid graph without a terminal sink, main_path starts at the
\* source, ends at a node that feeds a side-tap sink, and no path from the
\* source to such a node has more nodes than main_path.
C31_MainPathIsLongestToAttachPoint ==
  (Compiled /\ WellFormed(graph) /\ TerminalIds(graph) = {})
    => /\ SimplePath(graph, plan.main_path)
       /\ plan.main_path[1] \in SourceIds(graph)
       /\ plan.main_path[Len(plan.main_path)] \in AttachPoints(graph)
       /\ \A n \in AttachPoints(graph) :
            LongestTo(graph, n) <= Len(plan.main_path)

\* the stage nodes of the graph on the main path of the plan, in path order
MainPathStages ==
  SelectSeq(plan.main_path,
            LAMBDA nid : \E i \in DOMAIN graph.nodes :
                           graph.nodes[i].id = nid /\ graph.nodes[i].type = "stage")

KnownStageIds ==
  {"preprocess_cpu", "preprocess_gpu", "detect_apriltag_cpu", "overlay_cpu"}

\* C32: a build for a plan whose main path has a stage node of unknown kind,
\* or which has a side tap whose attach point is neither a stage that was
\* built nor the source, returns None: no pipeline, no taps, no sinks.
C32_BuildErrorAbortsTheBuild ==
  (/\ built.done
   /\ \/ \E i \in DOMAIN MainPathStages :
           built.stage_ids[MainPathStages[i]] \notin KnownStageIds
      \/ \E i \in DOMAIN plan.side_taps :
           /\ plan.side_taps[i].attach_point \notin SourceIds(graph)
           /\ \A j \in DOMAIN MainPathStages :
                MainPathStages[j] # plan.side_taps[i].attach_point)
    => /\ ~built.ok
       /\ built.stages = <<>>
       /\ built.stream_taps = <<>>
       /\ built.save_sinks = <<>>

\* the canonical stage name of a built-in stage_id
CanonicalName(stage_id) ==
  CASE stage_id \in {"preprocess_cpu", "preprocess_gpu"} -> "preprocess"
    [] stage_id = "detect_apriltag_cpu" -> "detect"
    [] stage_id = "overlay_cpu" -> "detect_overlay"

\* C33: the stage list of a built pipeline is the stage nodes of the main
\* path, in main-path order, each under its canonical name; the source and
\* the sinks of the main path give no stage.
C33_StagesAreMainPathStageNodes ==
  (built.done /\ built.ok) =>
    built.stages = [i \in DOMAIN MainPathStages |->
                      CanonicalName(built.stage_ids[MainPathStages[i]])]

\* source -> preprocess_gpu -> detect_apriltag_cpu -> SVTVisionOutput built
\* into the two stages preprocess, detect
C33_GpuPreprocessThenDetect ==
  /\ built.done /\ built.ok
  /\ graph = LinearChain
  /\ Len(plan.main_path) = 4
  /\ built.stage_ids["n2"] = "preprocess_gpu"
  /\ built.stage_ids["n3"] = "detect_apriltag_cpu"
  /\ built.stages = <<"preprocess", "detect">>

\* C35: at every moment at most one capture-loop thread and at most one
\* consumer-loop thread is in its loop, whatever cameras are opened and closed
\* and whether or not the bounded joins saw the old thread end.
C35_OneThreadPerLoop == cm_threads <= 1 /\ vp_threads <= 1

\* the camera ids in camera_managers change in this step
MapChanges == OpenCameras' # OpenCameras

\* thread t is inside `with lock:`
Holds(t, name) == lock_holder[ServiceLock(name)] = t

\* C34: open_camera and close_camera insert into and delete from the map of
\* open cameras only while holding the locks under which the capture loop and
\* the consumer loop take their snapshots, no loop reads the map while it is
\* being changed, and no loop thread dies from seeing a change in progress.
C34_MapChangedUnderTheLoopsLocks ==
  /\ [][MapChanges => /\ Holds("api", "camera_manager_lock")
                      /\ Holds("api", "vision_pipeline_thread_lock")
                      /\ ~At("consumer", "iterate")]_vars
  /\ [](\A t \in LoopThreads : loop_state[t] # "crashed")

\* thread t cannot go on before thread u does: t is at a "with" whose lock u
\* is inside, or t is inside join() on u and u has not left its loop
WaitsFor(t, u) ==
  /\ t # u
  /\ \/ At(t, "acquire") /\ lock_holder[Next_ins(t).lock] = u
     \/ At(t, "join") /\ Next_ins(t).id = u /\ loop_state[u] = "loop"

\* the locks thread t is inside
HeldBy(t) == {l \in Locks : lock_holder[l] = t}

\* the locks a loop thread takes on its way round its loop
LoopLocks(t) ==
  {ServiceLock(IF t = "capture" THEN "camera_manager_lock"
               ELSE "vision_pipeline_thread_lock")}
    \cup (Cameras \X ManagerLocks)

\* threads that wait for each other, directly or through the third thread
NoWaitCycle ==
  \A t, u \in LockThreads :
    WaitsFor(t, u) =>
      /\ ~WaitsFor(u, t)
      /\ \A v \in LockThreads : ~(WaitsFor(u, v) /\ WaitsFor(v, t))

\* a thread is inside locks of one manager at most
OneManagerAtATime ==
  \A t \in LockThreads : \A l1, l2 \in HeldBy(t) :
    l1[1] \in Cameras /\ l2[1] \in Cameras => l1[1] = l2[1]

\* inside a lock of a manager the only lock of it a thread goes on to take is
\* metrics_lock, from inside one of the queue locks
QueueLockBeforeMetricsLock ==
  \A t \in LockThreads : \A l \in HeldBy(t) :
    l[1] \in Cameras /\ At(t, "acquire") /\ Next_ins(t).lock[1] = l[1]
      => /\ l[2] \in {"frame_queue_lock", "raw_frame_queue_lock"}
         /\ Next_ins(t).lock[2] = "metrics_lock"

\* whoever joins a loop thread is inside none of the locks that thread takes
JoinsHoldNoLoopLock ==
  \A t \in LockThreads :
    At(t, "join") => HeldBy(t) \cap LoopLocks(Next_ins(t).id) = {}

\* C40: no thread waits for a lock held by a thread that in turn waits for
\* it: a thread is never inside locks of two camera managers, the queue locks
\* and the metrics lock of one manager are taken in one order, and no thread
\* is joined by a thread inside a lock the joined thread needs before it
\* tests its running flag.
C40_NoThreadsWaitForEachOther ==
  /\ NoWaitCycle
  /\ OneManagerAtATime
  /\ QueueLockBeforeMetricsLock
  /\ JoinsHoldNoLoopLock

\* C36: once stop(instance_id) has returned, no SaveVideoSink of a pipeline
\* started under that id has an open writer, and no sink of it is pushed a
\* further frame, whatever the thread running the pipeline was doing when
\* stop was called.
C36_SaveSinkStaysClosedAfterStop ==
  /\ [](\A p \in PipelineIds :
          threads[p].stop_returned /\ pipelines[p].sink = "save_video"
            => ~pipelines[p].writer_open)
  /\ [][\A p \in PipelineIds :
          threads[p].stop_returned /\ pipelines[p].sink # "none"
            => pipelines'[p].frames_processed = pipelines[p].frames_processed]_vars

\* the frame the node ap of the main path puts out: the raw frame for the
\* source, for a stage node the output of the stage built for it
OutputOf(ap) ==
  IF ap \in SourceIds(graph) THEN 0
  ELSE CHOOSE i \in DOMAIN MainPathStages : MainPathStages[i] = ap

\* the frames pushed to the j-th tap the builder created
PushedTo(j) == SelectSeq(tap_frames.pushes, LAMBDA push : push.tap = j)

\* C37: of a frame that runs through all stages of a built pipeline each side
\* tap is pushed exactly one frame, the output of its attach-point node (the
\* raw frame when that is the source), also when two stage nodes of the main
\* path carry the same stage name.
C37_TapGetsItsAttachPointOutput ==
  tap_frames.fed =>
    \A j \in DOMAIN built.side_taps_by_stage :
      LET t == built.side_taps_by_stage[j]
      IN (\/ t.attach_point \in SourceIds(graph)
          \/ \E i \in DOMAIN MainPathStages : MainPathStages[i] = t.attach_point)
           => PushedTo(j) = <<[tap |-> j, frame |-> OutputOf(t.attach_point)]>>

\* VisionPipelineManager.list_instances: instance id -> the state it is
\* reported with.  First the open managers that carry a pipeline (their
\* _instances entry, or a made-up running one), then every other entry of
\* _instances whose state is running
list_instances ==
  LET from_managers == {c \in Cameras : /\ camera_managers[c].open
                                        /\ camera_managers[c].vision_pipeline # NoPipeline}
      from_instances == {id \in InstIds : instances[id].state = "running"} \ from_managers
  IN [id \in from_managers \cup from_instances |->
        IF id \in from_managers /\ instances[id].state # "none"
        THEN instances[id].state ELSE "running"]

\* instance ids list_instances reports as running
ListedRunning == {id \in DOMAIN list_instances : list_instances[id] = "running"}

\* C38: every camera-backed instance that list_instances reports as running
\* belongs to a camera that is open and has that instance's pipeline
\* attached; a closed camera has no running instance and no registered
\* StreamTap
C38_RunningInstanceHasItsOpenCamera ==
  /\ \A c \in Cameras \cap ListedRunning :
       /\ camera_managers[c].open
       /\ camera_managers[c].vision_pipeline # NoPipeline
       /\ instances[c].state = "running"
            => camera_managers[c].vision_pipeline = instances[c].pipeline
  /\ \A c \in Cameras :
       ~camera_managers[c].open
         => /\ instances[c].state # "running"
            /\ taps[c] = NoTaps

\* C39: a stop call for an id that has no running instance reports failure
\* and leaves the managers, the instance table, the tap registry and the save
\* sinks as they were
C39_StopOfNothingFailsAndChangesNothing ==
  [][\A id \in InstIds :
       (lastCall'.op = "stop" /\ lastCall'.id = id /\ id \notin ListedRunning)
         => /\ lastCall'.err # ""
            /\ UNCHANGED <<camera_managers, instances, taps, save_sinks, pipelines>>]_vars

\* the effects alone: a stop call for an id that has no running instance
\* leaves the managers, instances, taps and sinks as they were
StopOfNothingChangesNothing ==
  [][\A id \in InstIds :
       (lastCall'.op = "stop" /\ lastCall'.id = id /\ id \notin ListedRunning)
         => UNCHANGED <<camera_managers, instances, taps, save_sinks, pipelines>>]_vars

====
